---- MODULE Spec2Model ----
(***************************************************************************)
(* A model of the ray tracer ray-tracing-rs: vector algebra, the ray/object *)
(* intersection tests, the scene container, the recursive trace, the        *)
(* materials and the camera's render scheduler.                             *)
(*                                                                          *)
(* Numbers.  The program computes in f64.  The model computes in a decimal  *)
(* fixed-point format with four fractional digits: the integer n stands     *)
(* for the real n / 10000.  Every f64 operation is modelled by the exact    *)
(* operation followed by truncation to that format, so rounding exists in   *)
(* the model as it does in the program, at a coarser grain.  NaN does not   *)
(* exist in the format: inputs that would divide zero by zero in the        *)
(* program (a zero direction vector) are kept out of the input sets.        *)
(***************************************************************************)
EXTENDS Integers, Sequences, FiniteSets, TLC

\* ------------------------------------------------------------------------
\* Fixed-point scalars
\* ------------------------------------------------------------------------

\* One unit (1.0) of the fixed-point format.
One == 10 * 10 * 10 * 10

\* n thousandths.
Milli(n) == n * (One \div 1000)

Abs(n) == IF n < 0 THEN -n ELSE n

Sgn(n) == IF n < 0 THEN -1 ELSE IF n > 0 THEN 1 ELSE 0

\* Quotient truncated toward zero, as a float quotient rounds symmetrically.
Trunc(n, d) == Sgn(n) * Sgn(d) * (Abs(n) \div Abs(d))

\* f64 multiplication and division in the fixed-point format.
FMul(a, b) == Trunc(a * b, One)

FDiv(a, b) == Trunc(a * One, b)

RECURSIVE ISqrtIn(_, _, _)
ISqrtIn(n, lo, hi) ==
    IF lo >= hi THEN lo
    ELSE LET mid == (lo + hi + 1) \div 2
         IN  IF mid * mid <= n THEN ISqrtIn(n, mid, hi) ELSE ISqrtIn(n, lo, mid - 1)

\* Largest r with r * r <= n, for 0 <= n.
ISqrt(n) == ISqrtIn(n, 0, IF n < 46340 THEN n ELSE 46340)

\* f64::sqrt in the fixed-point format.
FSqrt(a) == ISqrt(a * One)

\* f64::powi(2)
Powi2(a) == FMul(a, a)

FMin(a, b) == IF a < b THEN a ELSE b

\* f64::powi(5): by squaring, x^4 * x.
Powi5(a) == FMul(Powi2(Powi2(a)), a)

\* ------------------------------------------------------------------------
\* Vector (src/src/vector.rs)
\* ------------------------------------------------------------------------

Vector_new(x, y, z) == <<x, y, z>>

dot(v, w) == FMul(v[1], w[1]) + FMul(v[2], w[2]) + FMul(v[3], w[3])

cross(v, w) ==
    <<FMul(v[2], w[3]) - FMul(v[3], w[2]),
      FMul(v[3], w[1]) - FMul(v[1], w[3]),
      FMul(v[1], w[2]) - FMul(v[2], w[1])>>

len_squared(v) == dot(v, v)

len(v) == FSqrt(len_squared(v))

add_vectors(v, w) == <<v[1] + w[1], v[2] + w[2], v[3] + w[3]>>

sub_vectors(v, w) == <<v[1] - w[1], v[2] - w[2], v[3] - w[3]>>

mul_vector_and_scalar(v, s) == <<FMul(v[1], s), FMul(v[2], s), FMul(v[3], s)>>

div_vector_and_scalar(v, s) == <<FDiv(v[1], s), FDiv(v[2], s), FDiv(v[3], s)>>

neg_vector(v) == <<-v[1], -v[2], -v[3]>>

\* Vector::unit: the vector divided by its length.
unit(v) == div_vector_and_scalar(v, len(v))

ZeroVec == <<0, 0, 0>>

\* Point is a type alias of Vector.
Point_new(x, y, z) == Vector_new(x, y, z)

\* UtVector::reflect: v - 2 (v . n) n, normalised again.
\* A reflect that mirrors the normal about the vector.
reflect_swapped(v, normal) ==
    unit(sub_vectors(normal, mul_vector_and_scalar(v, FMul(dot(v, normal), 2 * One))))

reflect(v, normal) ==
    unit(sub_vectors(v, mul_vector_and_scalar(normal, FMul(dot(v, normal), 2 * One))))

\* UtVector::refract: the part of v perpendicular to the normal scaled by
\* refraction_index, the part along -normal restored to unit length.
refract(v, normal, refraction_index) ==
    LET incident == v
        normal_dir == neg_vector(normal)
        cos_theta == FMin(dot(neg_vector(incident), normal_dir), One)
        r_out_perp ==
            mul_vector_and_scalar(
                add_vectors(incident, mul_vector_and_scalar(normal_dir, cos_theta)),
                refraction_index)
        r_out_parallel ==
            mul_vector_and_scalar(normal_dir, FSqrt(Abs(One - len_squared(r_out_perp))))
    IN  unit(add_vectors(r_out_parallel, r_out_perp))

\* ------------------------------------------------------------------------
\* The random source (src/src/utils.rs, src/src/vector.rs)
\* ------------------------------------------------------------------------

\* Number of distinct values the model's random source can return.
NDraw == 3

\* Vector::random_unit returns a vector of length one.  The model's source
\* returns one of these, all of length exactly one in the format.
UnitDraws ==
    << <<Milli(600), Milli(800), 0>>, <<0, Milli(-600), Milli(800)>>,
       <<Milli(-800), 0, Milli(-600)>>, <<0, Milli(1000), 0>>,
       <<Milli(600), 0, Milli(800)>> >>

\* rand::random_range(-0.5, 0.5): a value of [-0.5, 0.5).
OffsetDraws == << Milli(-500), Milli(250), 0, Milli(-250), Milli(499) >>

\* The raw value the source hands to the k-th call of a stream seeded seed.
RawAt(seed, k) == ((seed + k) % NDraw) + 1

random_unit(seed, k) == UnitDraws[RawAt(seed, k)]

\* rand::random(): a value of [0.0, 1.0).
UniformDraws == << 0, Milli(40), Milli(500), Milli(999), Milli(45) >>

random_range_half(seed, k) == OffsetDraws[RawAt(seed, k)]

\* ------------------------------------------------------------------------
\* Color (src/src/color.rs)
\* ------------------------------------------------------------------------

Color_new(r, g, b) == <<r, g, b>>

Black == Color_new(0, 0, 0)

Color_mul_f64(c, rhs) == <<FMul(c[1], rhs), FMul(c[2], rhs), FMul(c[3], rhs)>>

Color_mul_Color(c, rhs) == <<FMul(c[1], rhs[1]), FMul(c[2], rhs[2]), FMul(c[3], rhs[3])>>

Color_add_Color(c, rhs) == <<c[1] + rhs[1], c[2] + rhs[2], c[3] + rhs[3]>>

linear_to_gamma(e) == IF e > 0 THEN FSqrt(e) ELSE 0

Clamp01(e) == IF e < 0 THEN 0 ELSE IF e > One THEN One ELSE e

\* (255.0 * e.clamp(0.0, 1.0)) as u8
ToU8(e) == (255 * Clamp01(e)) \div One

\* impl Display for Color: gamma correction, then quantisation to a byte
\* per channel; the line written is the three bytes in decimal.
Color_fmt(c) ==
    <<ToU8(linear_to_gamma(c[1])), ToU8(linear_to_gamma(c[2])), ToU8(linear_to_gamma(c[3]))>>

\* ------------------------------------------------------------------------
\* Interval (src/src/utils.rs)
\* ------------------------------------------------------------------------

Interval_new(min, max) == [min |-> min, max |-> max]

\* exclusive
contains(iv, t) == t > iv.min /\ t < iv.max

\* inclusive
contains_inclusive(iv, t) == t >= iv.min /\ t <= iv.max

\* ------------------------------------------------------------------------
\* Ray (src/src/ray.rs)
\* ------------------------------------------------------------------------

Ray_new(origin, dir) == [origin |-> origin, dir |-> dir]

Ray_at(ray, t) == add_vectors(ray.origin, mul_vector_and_scalar(ray.dir, t))

\* ------------------------------------------------------------------------
\* Materials as values (src/src/materials)
\* ------------------------------------------------------------------------

Lambertian_new(albedo) ==
    [kind |-> "Lambertian", albedo |-> albedo, roughness |-> 0, ior |-> 0]

Metal_new(albedo, roughness) ==
    [kind |-> "Metal", albedo |-> albedo, roughness |-> roughness, ior |-> 0]

Dielectric_new(ior) ==
    [kind |-> "Dielectric", albedo |-> Black, roughness |-> 0, ior |-> ior]

\* ------------------------------------------------------------------------
\* Objects (src/src/objects)
\* ------------------------------------------------------------------------

Sphere_new(center, radius, material) ==
    [kind |-> "Sphere", center |-> center, radius |-> radius,
     normal |-> ZeroVec, d |-> 0, material |-> material]

Plane_new(normal, d, material) ==
    [kind |-> "Plane", center |-> ZeroVec, radius |-> 0,
     normal |-> normal, d |-> d, material |-> material]

\* Option<HitRecord>
None == [some |-> FALSE]

Some(rec) ==
    [some |-> TRUE, point |-> rec.point, normal |-> rec.normal, t |-> rec.t,
     front_face |-> rec.front_face, material |-> rec.material]

\* The two roots the sphere test tries, smaller first: (h -+ sqrt(disc)) / a.
Sphere_roots(self, ray) ==
    LET oc == sub_vectors(self.center, ray.origin)
        a == len_squared(ray.dir)
        h == dot(oc, ray.dir)
        c == len_squared(oc) - Powi2(self.radius)
        discrim == Powi2(h) - FMul(a, c)
    IN  IF discrim < 0 THEN <<>>
        ELSE <<FDiv(h - FSqrt(discrim), a), FDiv(h + FSqrt(discrim), a)>>

\* A record whose normal is the outward normal whichever side is struck.
Sphere_record_unflipped(self, ray, t) ==
    LET outward == div_vector_and_scalar(sub_vectors(Ray_at(ray, t), self.center), self.radius)
        front_face == dot(ray.dir, outward) < 0
    IN  Some([t |-> t, point |-> Ray_at(ray, t), front_face |-> front_face,
              normal |-> outward, material |-> self.material])

\* The record a sphere builds for the accepted root t.
Sphere_record(self, ray, t) ==
    LET outward == div_vector_and_scalar(sub_vectors(Ray_at(ray, t), self.center), self.radius)
        front_face == dot(ray.dir, outward) < 0
    IN  Some([t |-> t, point |-> Ray_at(ray, t), front_face |-> front_face,
              normal |-> IF front_face THEN outward ELSE neg_vector(outward),
              material |-> self.material])

\* A sphere test that tries the larger root before the smaller.
Sphere_hit_far_first(self, ray_t, ray) ==
    LET roots == Sphere_roots(self, ray)
    IN  IF roots = <<>> THEN None
        ELSE IF ~(roots[2] < ray_t.min \/ roots[2] > ray_t.max)
             THEN Sphere_record(self, ray, roots[2])
        ELSE IF ~(roots[1] < ray_t.min \/ roots[1] > ray_t.max)
             THEN Sphere_record(self, ray, roots[1])
        ELSE None

\* impl Hittable for Sphere
Sphere_hit(self, ray_t, ray) ==
    LET roots == Sphere_roots(self, ray)
    IN  IF roots = <<>> THEN None
        ELSE IF ~(roots[1] < ray_t.min \/ roots[1] > ray_t.max)
             THEN Sphere_record(self, ray, roots[1])
        ELSE IF ~(roots[2] < ray_t.min \/ roots[2] > ray_t.max)
             THEN Sphere_record(self, ray, roots[2])
        ELSE None

\* 0.001: rays closer to parallel than this miss the plane.
PLANE_EPS == Milli(1)

\* impl Hittable for Plane
Plane_hit(self, ray_t, ray) ==
    LET denom == dot(self.normal, ray.dir)
    IN  IF Abs(denom) < PLANE_EPS THEN None
        ELSE LET t == FDiv(-(dot(self.normal, ray.origin) + self.d), denom)
                 front_face == dot(ray.dir, self.normal) < 0
             IN  IF ~contains(ray_t, t) THEN None
                 ELSE Some([point |-> add_vectors(ray.origin, mul_vector_and_scalar(ray.dir, t)),
                            normal |-> IF front_face THEN self.normal
                                       ELSE neg_vector(self.normal),
                            t |-> t, front_face |-> front_face,
                            material |-> self.material])

\* Dynamic dispatch over dyn Hittable.
Hittable_hit(self, ray_t, ray) ==
    IF self.kind = "Sphere" THEN Sphere_hit(self, ray_t, ray)
    ELSE Plane_hit(self, ray_t, ray)

\* ------------------------------------------------------------------------
\* HittableList (src/src/objects/mod.rs)
\* ------------------------------------------------------------------------

HittableList_new == <<>>

\* An add that puts the object in front of the members.
HittableList_add_front(list, object) == <<object>> \o list

\* HittableList::add pushes the object at the end.
HittableList_add(list, object) == Append(list, object)

\* The state of the scan before the first member.
ScanStart(ray_t) == [hit_record |-> None, closest_so_far |-> ray_t.max]

\* A scan that lets the lower end of the interval fall to zero.
ScanInterval_from_zero(ray_t, acc) == Interval_new(0, acc.closest_so_far)

\* A scan that hands every member the interval it was given, unshrunk.
ScanInterval_unshrunk(ray_t, acc) == ray_t

\* The interval the scan hands to the next member.
ScanInterval(ray_t, acc) == Interval_new(ray_t.min, acc.closest_so_far)

\* One turn of the loop over the members.
ScanMember(acc, hittable, ray_t, ray) ==
    LET rec == Hittable_hit(hittable, ScanInterval(ray_t, acc), ray)
    IN  IF rec.some THEN [hit_record |-> rec, closest_so_far |-> rec.t]
        ELSE acc

RECURSIVE ScanFrom(_, _, _, _, _)
ScanFrom(list, k, acc, ray_t, ray) ==
    IF k > Len(list) THEN acc
    ELSE ScanFrom(list, k + 1, ScanMember(acc, list[k], ray_t, ray), ray_t, ray)

\* impl Hittable for HittableList
HittableList_hit(list, ray_t, ray) == ScanFrom(list, 1, ScanStart(ray_t), ray_t, ray).hit_record

\* ------------------------------------------------------------------------
\* Material::interact (src/src/materials)
\* ------------------------------------------------------------------------

\* RayInteraction
Absorbed == [kind |-> "Absorbed"]

Scattered(inner, attenuation) ==
    [kind |-> "Scattered", inner |-> inner, attenuation |-> attenuation]

\* A diffuse surface that hands back half grey whatever its albedo.
Lambertian_interact_grey(self, ray, record, draw) ==
    LET scatter_direction == unit(add_vectors(record.normal, draw))
        scattered_ray == Ray_new(record.point, scatter_direction)
    IN  Scattered(scattered_ray, Color_new(One \div 2, One \div 2, One \div 2))

\* impl Material for Lambertian; draw is what Vector::random_unit returned.
Lambertian_interact(self, ray, record, draw) ==
    LET scatter_direction == unit(add_vectors(record.normal, draw))
        scattered_ray == Ray_new(record.point, scatter_direction)
    IN  Scattered(scattered_ray, self.albedo)

\* The fuzzed reflected direction of a metal.
Metal_direction(self, ray, record, draw) ==
    unit(add_vectors(unit(reflect(ray.dir, record.normal)),
                     mul_vector_and_scalar(draw, self.roughness)))

\* A metal that also absorbs the direction lying in the surface.
Metal_absorbs_tangent(reflected_direction, normal) == dot(reflected_direction, normal) <= 0

\* The test on which a metal absorbs the ray.
Metal_absorbs(reflected_direction, normal) == dot(reflected_direction, normal) < 0

\* impl Material for Metal
Metal_interact(self, ray, record, draw) ==
    LET reflected_direction == Metal_direction(self, ray, record, draw)
    IN  IF Metal_absorbs(reflected_direction, record.normal) THEN Absorbed
        ELSE Scattered(Ray_new(record.point, reflected_direction), self.albedo)

\* A Schlick term that is r0 at every angle.
Dielectric_reflectance_flat(cosine, ior) ==
    LET r0 == Powi2(FDiv(One - ior, One + ior))
    IN  r0

\* Dielectric::reflectance: Schlick's approximation.
Dielectric_reflectance(cosine, ior) ==
    LET r0 == Powi2(FDiv(One - ior, One + ior))
    IN  r0 + FMul(One - r0, Powi5(One - cosine))

\* A ratio taken the wrong way round: ior on entering, 1/ior on leaving.
Dielectric_ratio_swapped(self, record) ==
    IF record.front_face THEN self.ior ELSE FDiv(One, self.ior)

\* The effective index: 1/ior entering the medium, ior leaving it.
Dielectric_ratio(self, record) ==
    IF record.front_face THEN FDiv(One, self.ior) ELSE self.ior

\* A glass that swallows the ray it cannot refract.
Dielectric_outcome_absorbing(record, direction, tir) ==
    IF tir THEN Absorbed
    ELSE Scattered(Ray_new(record.point, direction), Color_new(One, One, One))

\* The value interact returns for the direction chosen.
Dielectric_outcome(record, direction, tir) ==
    Scattered(Ray_new(record.point, direction), Color_new(One, One, One))

\* impl Material for Dielectric; u is what rand::random returned.
Dielectric_interact(self, ray, record, u) ==
    LET ior == Dielectric_ratio(self, record)
        incident == ray.dir
        cos_theta == FMin(dot(neg_vector(incident), record.normal), One)
        sin_theta == FSqrt(One - FMul(cos_theta, cos_theta))
        tir == FMul(ior, sin_theta) > One
        direction ==
            IF tir \/ Dielectric_reflectance(cos_theta, ior) > u
            THEN reflect(incident, record.normal)
            ELSE refract(incident, record.normal, ior)
    IN  Dielectric_outcome(record, direction, tir)

\* Dynamic dispatch over dyn Material.  draw is the unit vector and u the
\* uniform value the random source returns during the call.
Material_interact(self, ray, record, draw, u) ==
    CASE self.kind = "Lambertian" -> Lambertian_interact(self, ray, record, draw)
      [] self.kind = "Metal" -> Metal_interact(self, ray, record, draw)
      [] OTHER -> Dielectric_interact(self, ray, record, u)

\* ------------------------------------------------------------------------
\* Ray::color, the recursive trace (src/src/ray.rs)
\* ------------------------------------------------------------------------

\* 0.001, the lower end of the interval searched: avoids shadow acne.
T_MIN == Milli(1)

\* f64::MAX, the upper end: the largest number of the format.
F64_MAX == 2147483647

\* The query Ray::color makes.
WorldQuery(world, ray) == HittableList_hit(world, Interval_new(T_MIN, F64_MAX), ray)

\* A limit test that never finds the limit used up.
Exhausted_never(bounce) == bounce < 0

\* if bounce == 0: the limit on the number of child rays is used up.
Exhausted(bounce) == bounce = 0

\* The child ray of a hit: from the hit point along normal + random unit.
ScatteredRay(record, draw) == Ray_new(record.point, add_vectors(record.normal, draw))

\* What the parent makes of its child's colour.
Attenuate(c) == Color_mul_f64(c, One \div 2)

\* A child traced with the depth of its parent.
ChildBounce_same(bounce) == bounce

\* The depth the child is traced with.
ChildBounce(bounce) == bounce - 1

\* A sky blended by the height of the point the ray starts from.
Sky_by_origin(ray) ==
    LET a == FMul(Clamp01(ray.origin[3]) + One, One \div 2)
        b == Color_new(Milli(500), Milli(702), One)
    IN  Color_add_Color(Color_mul_f64(Color_new(One, One, One), One - a),
                        Color_mul_f64(b, a))

\* The sky: white blended with blue by the height of the direction.
Sky(ray) ==
    LET unit_direction == unit(ray.dir)
        a == FMul(unit_direction[2] + One, One \div 2)
        b == Color_new(Milli(500), Milli(702), One)
    IN  Color_add_Color(Color_mul_f64(Color_new(One, One, One), One - a),
                        Color_mul_f64(b, a))

\* Ray::color.  seed and k name the stream position of the random source.
RECURSIVE color(_, _, _, _, _)
color(ray, world, bounce, seed, k) ==
    IF Exhausted(bounce) THEN Black
    ELSE LET record == WorldQuery(world, ray)
         IN  IF record.some
             THEN Attenuate(color(ScatteredRay(record, random_unit(seed, k)), world,
                                  ChildBounce(bounce), seed, k + 1))
             ELSE Sky(ray)

\* ------------------------------------------------------------------------
\* ImageOptions, RenderOptions, Camera (src/src/scene.rs)
\* ------------------------------------------------------------------------

\* AntialiasOptions: Disabled, or Enabled(samples per pixel).
Disabled == [enabled |-> FALSE, spp |-> 0]

Enabled(spp) == [enabled |-> TRUE, spp |-> spp]

ImageOptions_new(width, height) ==
    [width |-> width, height |-> height, antialias |-> Disabled]

\* An antialias that forgets the branch for 0 and leaves the setting alone.
ImageOptions_antialias_sticky(self, spp) ==
    IF spp = 0 THEN self
    ELSE [self EXCEPT !.antialias = Enabled(spp)]

ImageOptions_antialias(self, spp) ==
    IF spp = 0 THEN [self EXCEPT !.antialias = Disabled]
    ELSE [self EXCEPT !.antialias = Enabled(spp)]

ParallelOptions == {"AllAtOnce", "ByRows", "Series"}

RenderOptions_new == [parallel |-> "ByRows"]

RenderOptions_parallel(self, config) == [self EXCEPT !.parallel = config]

\* tan of half the angle, for the angles (in degrees) the model's cameras
\* use: tan(45 deg) = 1, tan(5 deg) = 0.0875, tan(0) = 0.
TanHalf(degrees) ==
    CASE degrees = 90 * One -> One
      [] degrees = 10 * One -> Milli(875) \div 10
      [] OTHER -> 0

\* u32 as f64
AsF64(n) == n * One

\* Camera::new
Camera_new(vfov, defocus_angle, look_from, look_at, up, image_options, world) ==
    LET render_options == RenderOptions_new
        h == TanHalf(vfov)
        focal_vector == sub_vectors(look_from, look_at)
        focal_length == len(focal_vector)
        viewport_height == FMul(FMul(2 * One, h), focal_length)
        viewport_width ==
            FMul(viewport_height, FDiv(AsF64(image_options.width), AsF64(image_options.height)))
        w == unit(focal_vector)
        u == mul_vector_and_scalar(unit(cross(up, w)), viewport_width)
        v == div_vector_and_scalar(mul_vector_and_scalar(cross(u, w), viewport_height),
                                   viewport_width)
        pixel_delta_u == div_vector_and_scalar(u, AsF64(image_options.width))
        pixel_delta_v == div_vector_and_scalar(v, AsF64(image_options.height))
        viewport_upper_left ==
            sub_vectors(sub_vectors(look_from, focal_vector),
                        div_vector_and_scalar(add_vectors(u, v), 2 * One))
    IN  [center |-> look_from,
         focal_vector |-> focal_vector,
         viewport |-> [u |-> u, v |-> v, pixel_delta_u |-> pixel_delta_u,
                       pixel_delta_v |-> pixel_delta_v, upper_left |-> viewport_upper_left],
         defocus_angle |-> defocus_angle,
         image_options |-> image_options,
         render_options |-> render_options,
         world |-> world]

defocus_radius(self) == FMul(len(self.focal_vector), TanHalf(self.defocus_angle))

defocus_disk_u(self) == mul_vector_and_scalar(self.viewport.u, defocus_radius(self))

defocus_disk_v(self) == mul_vector_and_scalar(self.viewport.v, defocus_radius(self))

\* An update that derives the pixel deltas again from the new image size.
Camera_update_image_options_rederived(self, image_options) ==
    [self EXCEPT !.image_options = image_options,
                 !.viewport.pixel_delta_u =
                     div_vector_and_scalar(self.viewport.u, AsF64(image_options.width)),
                 !.viewport.pixel_delta_v =
                     div_vector_and_scalar(self.viewport.v, AsF64(image_options.height))]

Camera_update_image_options(self, image_options) ==
    [self EXCEPT !.image_options = image_options]

Camera_update_render_options(self, render_options) ==
    [self EXCEPT !.render_options = render_options]

\* The depth pixel_color_at traces every camera ray with.
MAX_BOUNCE == 50

get_pixel_center_coordinates(self, i, j) ==
    add_vectors(add_vectors(self.viewport.upper_left,
                            mul_vector_and_scalar(self.viewport.pixel_delta_u,
                                                  AsF64(i) + One \div 2)),
                mul_vector_and_scalar(self.viewport.pixel_delta_v, AsF64(j) + One \div 2))

\* sample_square: two draws of random_range(-0.5, 0.5).
sample_square(seed, k) ==
    Vector_new(random_range_half(seed, k), random_range_half(seed, k + 1), 0)

defocus_disk_sample(self, seed, k) ==
    LET p == random_unit(seed, k)
    IN  add_vectors(add_vectors(self.center,
                                mul_vector_and_scalar(defocus_disk_u(self), p[1])),
                    mul_vector_and_scalar(defocus_disk_v(self), p[2]))

\* A sample ray that starts at the camera centre whatever the defocus angle.
get_antialiasing_ray_components_centred(self, i, j, seed, k) ==
    LET offset == sample_square(seed, k)
        point_to ==
            add_vectors(add_vectors(self.viewport.upper_left,
                                    mul_vector_and_scalar(self.viewport.pixel_delta_u,
                                                          AsF64(i) + offset[1] + One \div 2)),
                        mul_vector_and_scalar(self.viewport.pixel_delta_v,
                                              AsF64(j) + offset[2] + One \div 2))
    IN  Ray_new(self.center, unit(sub_vectors(point_to, self.center)))

\* get_antialiasing_ray_components: the jittered camera ray of one sample.
\* It draws the offset at stream positions k and k + 1 and, with a defocus
\* disk, the disk point at k + 2.
get_antialiasing_ray_components(self, i, j, seed, k) ==
    LET offset == sample_square(seed, k)
        point_to ==
            add_vectors(add_vectors(self.viewport.upper_left,
                                    mul_vector_and_scalar(self.viewport.pixel_delta_u,
                                                          AsF64(i) + offset[1] + One \div 2)),
                        mul_vector_and_scalar(self.viewport.pixel_delta_v,
                                              AsF64(j) + offset[2] + One \div 2))
        ray_origin == IF self.defocus_angle <= 0 THEN self.center
                      ELSE defocus_disk_sample(self, seed, k + 2)
    IN  Ray_new(ray_origin, unit(sub_vectors(point_to, ray_origin)))

\* The camera ray of a pixel with antialiasing disabled: no draw.
PrimaryRay(self, i, j) ==
    Ray_new(self.center, unit(sub_vectors(get_pixel_center_coordinates(self, i, j), self.center)))

\* The sum over the samples n..spp-1 of an antialiased pixel.  Sample n
\* reads the stream seeded seed + n.
RECURSIVE SampleSum(_, _, _, _, _, _)
SampleSum(self, i, j, seed, n, spp) ==
    IF n >= spp THEN Black
    ELSE Color_add_Color(
             Color_mul_f64(color(get_antialiasing_ray_components(self, i, j, seed + n, 0),
                                 self.world, MAX_BOUNCE, seed + n, 3),
                           FDiv(One, AsF64(spp))),
             SampleSum(self, i, j, seed, n + 1, spp))

\* A pixel_color_at that jitters the camera ray whatever the antialiasing
\* setting says.
pixel_color_at_jittered(self, i, j, seed) ==
    color(get_antialiasing_ray_components(self, i, j, seed, 0), self.world, MAX_BOUNCE, seed, 3)

\* Camera::pixel_color_at, for the pixel's random stream seeded seed.
pixel_color_at(self, i, j, seed) ==
    IF ~self.image_options.antialias.enabled
    THEN color(PrimaryRay(self, i, j), self.world, MAX_BOUNCE, seed, 0)
    ELSE SampleSum(self, i, j, seed, 0, self.image_options.antialias.spp)

\* The camera rays pixel_color_at traces, in order: each with the offset it
\* drew (none when antialiasing is disabled), the factor its colour enters
\* the sum with, and the stream and position its Ray::color reads from.
PixelSamples(self, i, j, seed) ==
    IF ~self.image_options.antialias.enabled
    THEN << [ray |-> PrimaryRay(self, i, j), jitter |-> <<>>, weight |-> One,
             seed |-> seed, k |-> 0] >>
    ELSE [n \in 1 .. self.image_options.antialias.spp |->
             [ray |-> get_antialiasing_ray_components(self, i, j, seed + n - 1, 0),
              jitter |-> <<sample_square(seed + n - 1, 0)>>,
              weight |-> FDiv(One, AsF64(self.image_options.antialias.spp)),
              seed |-> seed + n - 1, k |-> 3]]

\* ------------------------------------------------------------------------
\* State
\* ------------------------------------------------------------------------

VARIABLES
    camera,     \* the Camera value the caller holds
    file,       \* the lines of output.ppm
    pc,         \* where the caller is: idle, inside render, or failed
    hdr,        \* header lines written by write_ppm_p3_header
    row,        \* j of the row loops
    col,        \* i of the inner loop of render_sequential
    pixels,     \* the buffer: pixels (AllAtOnce) or row_pixels (ByRows)
    pending,    \* buffer slots the parallel workers have not filled yet
    wpos,       \* next buffer slot to write to the file
    seed,       \* the random stream of the render under way
    renders,    \* history: the renders that returned Ok
    scan,       \* a HittableList::hit call under way
    tr,         \* a Ray::color call under way
    mat,        \* a Material::interact call
    image,      \* an ImageOptions value a caller is building
    process     \* the process: its global logger, the Camera::new calls it made

vars == <<camera, file, pc, hdr, row, col, pixels, pending, wpos, seed, renders, scan, tr, mat,
          image, process>>

renderVars == <<camera, file, pc, hdr, row, col, pixels, pending, wpos, seed, renders>>

\* ------------------------------------------------------------------------
\* Scenes and bounds of the render specification
\* ------------------------------------------------------------------------

\* Image size of the model's cameras.
ImgW == 2

ImgH == 2

\* Samples per pixel the callers ask for: 0 .. MaxSpp.
MaxSpp == 1

\* Renders one behaviour makes with its camera.
MaxRenders == 2

Matte == Lambertian_new(Color_new(One, One \div 2, One \div 2))

Mirror == Metal_new(Color_new(Milli(800), Milli(600), Milli(200)), 0)

\* A small sphere straight behind the upper left of the viewport.
BallA == Sphere_new(Point_new(Milli(-500), Milli(500), Milli(-1000)), Milli(300), Matte)

\* A metal sphere low on the right.
BallB == Sphere_new(Point_new(Milli(600), Milli(-400), Milli(-1200)), Milli(400), Mirror)

\* A sphere behind the camera: no camera ray meets it.
BallC == Sphere_new(Point_new(0, 0, 2 * One), Milli(500), Matte)

Worlds == { HittableList_new,
            HittableList_add(HittableList_new, BallA),
            HittableList_add(HittableList_new, BallC),
            HittableList_add(HittableList_add(HittableList_new, BallA), BallB) }

Seeds == 0 .. (NDraw - 1)

\* The camera of benches/parallel.rs: at the origin, looking down -z,
\* 90 degrees of vertical field of view.
BenchCamera(image_options, world) ==
    Camera_new(90 * One, 10 * One, Point_new(0, 0, 0), Point_new(0, 0, -One),
               Vector_new(0, One, 0), image_options, world)

Width == camera.image_options.width

Height == camera.image_options.height

\* The header lines of a P3 file.
HeaderLine(n) ==
    CASE n = 1 -> <<"P3">>
      [] n = 2 -> <<Width, Height>>
      [] OTHER -> <<"255">>

\* writeln!(file, "{}", color)
PixelLine(c) == Color_fmt(c)

NoBuffer == <<>>

\* ------------------------------------------------------------------------
\* The caller between renders
\* ------------------------------------------------------------------------

UpdateRenderOptions(p) ==
    /\ pc = "idle"
    /\ Len(renders) < MaxRenders
    /\ camera.render_options.parallel # p
    /\ camera' = Camera_update_render_options(camera,
                     RenderOptions_parallel(RenderOptions_new, p))
    /\ UNCHANGED <<image, process, scan, tr, mat, file, pc, hdr, row, col, pixels, pending, wpos, seed, renders>>

UpdateImageOptions(image_options) ==
    /\ pc = "idle"
    /\ Len(renders) < MaxRenders
    /\ image_options # camera.image_options
    /\ camera' = Camera_update_image_options(camera, image_options)
    /\ UNCHANGED <<image, process, scan, tr, mat, file, pc, hdr, row, col, pixels, pending, wpos, seed, renders>>

\* ------------------------------------------------------------------------
\* Camera::render
\* ------------------------------------------------------------------------

\* OpenOptions ... .open(path)? succeeded: the file is truncated.
RenderOpen ==
    /\ pc = "idle"
    /\ Len(renders) < MaxRenders
    /\ file' = <<>>
    /\ pc' = "header"
    /\ hdr' = 0
    /\ seed' \in Seeds
    /\ UNCHANGED <<image, process, scan, tr, mat, camera, row, col, pixels, pending, wpos, renders>>

\* An open that fails after it has truncated the file.
RenderOpenFail_truncating ==
    /\ pc = "idle"
    /\ Len(renders) < MaxRenders
    /\ file' = <<>>
    /\ pc' = "failed"
    /\ UNCHANGED <<image, process, scan, tr, mat, camera, hdr, row, col, pixels, pending, wpos, seed, renders>>

\* open(path)? failed: render returns the error, the file is untouched.
RenderOpenFail ==
    /\ pc = "idle"
    /\ Len(renders) < MaxRenders
    /\ pc' = "failed"
    /\ UNCHANGED <<image, process, scan, tr, mat, camera, file, hdr, row, col, pixels, pending, wpos, seed, renders>>

\* One writeln! of write_ppm_p3_header.
WriteHeader ==
    /\ pc = "header"
    /\ hdr < 3
    /\ file' = Append(file, HeaderLine(hdr + 1))
    /\ hdr' = hdr + 1
    /\ UNCHANGED <<image, process, scan, tr, mat, camera, pc, row, col, pixels, pending, wpos, seed, renders>>

\* The match on render_options.parallel; render_parallel_all allocates
\* the buffer and forks the workers.
Dispatch ==
    /\ pc = "header"
    /\ hdr = 3
    /\ row' = 0
    /\ col' = 0
    /\ wpos' = 0
    /\ IF camera.render_options.parallel = "AllAtOnce"
       THEN /\ pixels' = [k \in 0 .. (Height * Width - 1) |-> Black]
            /\ pending' = 0 .. (Height * Width - 1)
            /\ pc' = "all_compute"
       ELSE /\ pixels' = NoBuffer
            /\ pending' = {}
            /\ pc' = IF camera.render_options.parallel = "ByRows" THEN "rows_next"
                     ELSE "series"
    /\ UNCHANGED <<image, process, scan, tr, mat, camera, file, hdr, seed, renders>>

\* A writeln! fails: the ? returns the error from render at once.
WriteFail ==
    /\ \/ pc = "header" /\ hdr < 3
       \/ pc = "all_write" /\ wpos < Height * Width
       \/ pc = "rows_write" /\ wpos < Width
       \/ pc = "series" /\ row < Height
    /\ pc' = "failed"
    /\ UNCHANGED <<image, process, scan, tr, mat, camera, file, hdr, row, col, pixels, pending, wpos, seed, renders>>

\* A worker that takes the flat index column-major: slot k gets the colour
\* of pixel (k div width, k mod width).
AllPixel_transposed(k) ==
    /\ pc = "all_compute"
    /\ k \in pending
    /\ pixels' = [pixels EXCEPT ![k] = pixel_color_at(camera, k \div Width, k % Width, seed)]
    /\ pending' = pending \ {k}
    /\ UNCHANGED <<image, process, scan, tr, mat, camera, file, pc, hdr, row, col, wpos, seed, renders>>

\* A worker that also leaves its colour in slot 0, a slot all workers share.
AllPixel_shared(k) ==
    /\ pc = "all_compute"
    /\ k \in pending
    /\ LET c == pixel_color_at(camera, k % Width, k \div Width, seed)
       IN  pixels' = [pixels EXCEPT ![k] = c, ![0] = c]
    /\ pending' = pending \ {k}
    /\ UNCHANGED <<image, process, scan, tr, mat, camera, file, pc, hdr, row, col, wpos, seed, renders>>

\* render_parallel_all: one worker fills slot k of the buffer.
AllPixel(k) ==
    /\ pc = "all_compute"
    /\ k \in pending
    /\ pixels' = [pixels EXCEPT ![k] = pixel_color_at(camera, k % Width, k \div Width, seed)]
    /\ pending' = pending \ {k}
    /\ UNCHANGED <<image, process, scan, tr, mat, camera, file, pc, hdr, row, col, wpos, seed, renders>>

\* A for_each that returns while workers are still to run.
AllJoin_eager ==
    /\ pc = "all_compute"
    /\ pc' = "all_write"
    /\ wpos' = 0
    /\ UNCHANGED <<image, process, scan, tr, mat, camera, file, hdr, row, col, pixels, pending, seed, renders>>

\* The join at the end of for_each.
AllJoin ==
    /\ pc = "all_compute"
    /\ pending = {}
    /\ pc' = "all_write"
    /\ wpos' = 0
    /\ UNCHANGED <<image, process, scan, tr, mat, camera, file, hdr, row, col, pixels, pending, seed, renders>>

\* The loop writing the buffer.
AllWrite ==
    /\ pc = "all_write"
    /\ wpos < Height * Width
    /\ file' = Append(file, PixelLine(pixels[wpos]))
    /\ wpos' = wpos + 1
    /\ UNCHANGED <<image, process, scan, tr, mat, camera, pc, hdr, row, col, pixels, pending, seed, renders>>

\* render_parallel_by_rows: the loop over j forks the workers of row j.
RowsNext ==
    /\ pc = "rows_next"
    /\ row < Height
    /\ pixels' = [i \in 0 .. (Width - 1) |-> Black]
    /\ pending' = 0 .. (Width - 1)
    /\ pc' = "rows_compute"
    /\ UNCHANGED <<image, process, scan, tr, mat, camera, file, hdr, row, col, wpos, seed, renders>>

\* A row whose workers push their results in completion order would fill
\* the slots from the far end: worker i fills slot width - 1 - i.
RowPixel_unordered(i) ==
    /\ pc = "rows_compute"
    /\ i \in pending
    /\ pixels' = [pixels EXCEPT ![Width - 1 - i] = pixel_color_at(camera, i, row, seed)]
    /\ pending' = pending \ {i}
    /\ UNCHANGED <<image, process, scan, tr, mat, camera, file, pc, hdr, row, col, wpos, seed, renders>>

\* One worker computes pixel (i, row).
RowPixel(i) ==
    /\ pc = "rows_compute"
    /\ i \in pending
    /\ pixels' = [pixels EXCEPT ![i] = pixel_color_at(camera, i, row, seed)]
    /\ pending' = pending \ {i}
    /\ UNCHANGED <<image, process, scan, tr, mat, camera, file, pc, hdr, row, col, wpos, seed, renders>>

\* A collect() that returns while workers of the row are still to run.
RowJoin_eager ==
    /\ pc = "rows_compute"
    /\ pc' = "rows_write"
    /\ wpos' = 0
    /\ UNCHANGED <<image, process, scan, tr, mat, camera, file, hdr, row, col, pixels, pending, seed, renders>>

\* collect() returns row_pixels.
RowJoin ==
    /\ pc = "rows_compute"
    /\ pending = {}
    /\ pc' = "rows_write"
    /\ wpos' = 0
    /\ UNCHANGED <<image, process, scan, tr, mat, camera, file, hdr, row, col, pixels, pending, seed, renders>>

RowWrite ==
    /\ pc = "rows_write"
    /\ wpos < Width
    /\ file' = Append(file, PixelLine(pixels[wpos]))
    /\ wpos' = wpos + 1
    /\ UNCHANGED <<image, process, scan, tr, mat, camera, pc, hdr, row, col, pixels, pending, seed, renders>>

\* The row is written: on to the next j.
RowDone ==
    /\ pc = "rows_write"
    /\ wpos = Width
    /\ row' = row + 1
    /\ pixels' = NoBuffer
    /\ pc' = "rows_next"
    /\ UNCHANGED <<image, process, scan, tr, mat, camera, file, hdr, col, pending, wpos, seed, renders>>

\* render_sequential: compute pixel (col, row) and write it.
SeriesPixel ==
    /\ pc = "series"
    /\ row < Height
    /\ file' = Append(file, PixelLine(pixel_color_at(camera, col, row, seed)))
    /\ IF col + 1 < Width
       THEN col' = col + 1 /\ row' = row
       ELSE col' = 0 /\ row' = row + 1
    /\ UNCHANGED <<image, process, scan, tr, mat, camera, pc, hdr, pixels, pending, wpos, seed, renders>>

\* The strategy returned Ok(()), and so does render.
RenderOk ==
    /\ \/ pc = "all_write" /\ wpos = Height * Width
       \/ pc = "rows_next" /\ row = Height
       \/ pc = "series" /\ row = Height
    /\ pc' = "idle"
    /\ pixels' = NoBuffer
    /\ renders' = Append(renders,
                         [parallel |-> camera.render_options.parallel,
                          image_options |-> camera.image_options,
                          seed |-> seed, lines |-> file])
    /\ UNCHANGED <<image, process, scan, tr, mat, camera, file, hdr, row, col, pending, wpos, seed>>

ScanIdle == [pc |-> "off"]

TraceIdle == [pc |-> "off"]

MatIdle == [pc |-> "off"]

ImageIdle == [pc |-> "off"]

\* A process that has just started: no logger is installed.
ProcessStarted == [logger |-> FALSE, calls |-> 0, cameras |-> 0]

\* A process whose one Camera::new call has returned its camera.
ProcessWithCamera == [logger |-> TRUE, calls |-> 1, cameras |-> 1]

Init ==
    /\ \E world \in Worlds :
           camera = BenchCamera(ImageOptions_new(ImgW, ImgH), world)
    /\ file = <<>>
    /\ pc = "idle"
    /\ hdr = 0
    /\ row = 0
    /\ col = 0
    /\ pixels = NoBuffer
    /\ pending = {}
    /\ wpos = 0
    /\ seed = 0
    /\ renders = <<>>
    /\ scan = ScanIdle
    /\ tr = TraceIdle
    /\ mat = MatIdle
    /\ image = ImageIdle
    /\ process = ProcessWithCamera

Next ==
    \/ \E p \in ParallelOptions : UpdateRenderOptions(p)
    \/ \E spp \in 0 .. MaxSpp :
           UpdateImageOptions(ImageOptions_antialias(ImageOptions_new(ImgW, ImgH), spp))
    \/ RenderOpen
    \/ RenderOpenFail
    \/ WriteHeader
    \/ Dispatch
    \/ WriteFail
    \/ \E k \in pending : AllPixel(k)
    \/ AllJoin
    \/ AllWrite
    \/ RowsNext
    \/ \E i \in pending : RowPixel(i)
    \/ RowJoin
    \/ RowWrite
    \/ RowDone
    \/ SeriesPixel
    \/ RenderOk

Spec == Init /\ [][Next]_vars


\* ------------------------------------------------------------------------
\* Properties of Camera::render
\* ------------------------------------------------------------------------

\* The camera as it was during the render r of the history.
CameraOf(r) == Camera_update_image_options(camera, r.image_options)

\* The lines of a complete P3 file for camera self and random stream seed:
\* the header, then the pixels row-major from the top row.
ExpectedLines(self, s) ==
    <<HeaderLine(1), HeaderLine(2), HeaderLine(3)>> \o
    [n \in 1 .. (self.image_options.width * self.image_options.height) |->
        PixelLine(pixel_color_at(self, (n - 1) % self.image_options.width,
                                 (n - 1) \div self.image_options.width, s))]

IsPrefix(a, b) == Len(a) <= Len(b) /\ a = SubSeq(b, 1, Len(a))

Rendering == pc \notin {"idle", "failed"}

\* No camera ray of the antialiasing-disabled camera meets an object.
NoPrimaryHit ==
    \A i \in 0 .. (Width - 1), j \in 0 .. (Height - 1) :
        ~WorldQuery(camera.world, PrimaryRay(camera, i, j)).some

\* C3: every render that returned Ok, under every strategy and every order
\* of the workers, wrote the three header lines P3, "width height", 255 and
\* then exactly width*height pixel lines, the k-th (from 0) being the colour
\* of pixel (k mod width, k div width); while a render is under way the file
\* is a prefix of that sequence, so no pixel line precedes the header.
C3_FileLayout ==
    /\ \A n \in 1 .. Len(renders) :
           renders[n].lines = ExpectedLines(CameraOf(renders[n]), renders[n].seed)
    /\ Rendering => IsPrefix(file, ExpectedLines(camera, seed))

\* An Ok render by the all-at-once workers of a scene in which pixels differ
\* (a sphere in view), complete with header and width*height pixel lines.
C3_Witness ==
    \E n \in 1 .. Len(renders) :
        /\ renders[n].parallel = "AllAtOnce"
        /\ ~NoPrimaryHit
        /\ Len(renders[n].lines) = 3 + Width * Height
        /\ renders[n].lines[4] # renders[n].lines[5]

\* C1: two Ok renders of the same scene and camera in which every pixel
\* received the same random draws (the same stream) wrote the same lines in
\* the same order, whichever of Series, ByRows and AllAtOnce each used and
\* in whichever order the workers ran.
C1_StrategiesAgree ==
    \A m, n \in 1 .. Len(renders) :
        (/\ renders[m].seed = renders[n].seed
         /\ renders[m].image_options = renders[n].image_options)
        => renders[m].lines = renders[n].lines

\* Two Ok renders with antialiasing on, one parallel by rows and one in
\* series, on the same draws, of a scene with a sphere in view.
C1_Witness ==
    /\ Len(renders) = 2
    /\ renders[1].parallel = "ByRows"
    /\ renders[2].parallel = "Series"
    /\ renders[1].seed = renders[2].seed
    /\ renders[1].image_options = renders[2].image_options
    /\ renders[1].image_options.antialias.enabled
    /\ ~NoPrimaryHit
    /\ renders[1].lines = renders[2].lines

AntialiasDisabled(r) == ~r.image_options.antialias.enabled

\* C2: with antialiasing disabled no draw takes part in building the camera
\* rays, but every hit still draws a random unit vector for the scattered
\* ray: two Ok renders of the same scene and camera wrote identical files
\* when their draws were the same or when no camera ray meets an object.
C2_DisabledDeterminism ==
    \A m, n \in 1 .. Len(renders) :
        (/\ AntialiasDisabled(renders[m])
         /\ AntialiasDisabled(renders[n])
         /\ (renders[m].seed = renders[n].seed \/ NoPrimaryHit))
        => renders[m].lines = renders[n].lines

\* Two Ok renders without antialiasing of a scene that holds a sphere no
\* camera ray meets, on different draws: the files are identical.
C2_Witness ==
    /\ Len(renders) = 2
    /\ AntialiasDisabled(renders[1])
    /\ AntialiasDisabled(renders[2])
    /\ renders[1].seed # renders[2].seed
    /\ camera.world # HittableList_new
    /\ NoPrimaryHit
    /\ renders[1].lines = renders[2].lines

\* C2 as the specification words it: with antialiasing disabled the file is
\* a function of the scene and the camera alone.
C2_Original ==
    \A m, n \in 1 .. Len(renders) :
        (AntialiasDisabled(renders[m]) /\ AntialiasDisabled(renders[n]))
        => renders[m].lines = renders[n].lines

\* render has returned Err to its caller.
Failed == pc = "failed"

\* C15: the first failure to open the file or to write a line ends the
\* render at once with the error: the failing step writes nothing and
\* computes nothing, the file and the buffer stay as they are from then on
\* (no retry, no later write), and when the open or a header write fails no
\* pixel colour has been computed and the file holds no pixel line of this
\* render; under Series, ByRows and AllAtOnce alike.
C15_FailFast ==
    [][/\ (pc' = "failed" /\ pc # "failed") =>
              /\ file' = file
              /\ pixels' = pixels
              /\ pending' = pending
              /\ renders' = renders
              /\ pc \in {"idle", "header"} => pixels = NoBuffer
              /\ pc = "header" => (hdr < 3 /\ Len(file) = hdr)
       /\ pc = "failed" => (pc' = "failed" /\ file' = file /\ pixels' = pixels)]_vars

\* An all-at-once render that failed on a pixel line: the buffer is full,
\* the file is cut short after the header and at least one pixel line.
C15_Witness ==
    /\ Failed
    /\ camera.render_options.parallel = "AllAtOnce"
    /\ pending = {}
    /\ Len(file) > 3
    /\ Len(file) < 3 + Width * Height
    /\ Len(file) = 3 + wpos

\* The pixel lines of the file of the render under way.
PixelLinesWritten == Len(file) - 3

\* C27: under ByRows the workers of row j run only when the rows before j
\* are written in full and no line of row j is, and the lines of row j are
\* written only when all its pixels are computed, whatever the order of the
\* workers; the buffer holds pixels of the one row j, at most width of them.
C27_RowAtATime ==
    /\ pc = "rows_next" => (pixels = NoBuffer /\ PixelLinesWritten = row * Width)
    /\ pc = "rows_compute" =>
           /\ row < Height
           /\ PixelLinesWritten = row * Width
           /\ DOMAIN pixels = 0 .. (Width - 1)
           /\ \A i \in DOMAIN pixels \ pending :
                  pixels[i] = pixel_color_at(camera, i, row, seed)
    /\ pc = "rows_write" =>
           /\ pending = {}
           /\ PixelLinesWritten = row * Width + wpos
           /\ wpos <= Width
           /\ DOMAIN pixels = 0 .. (Width - 1)
           /\ \A i \in DOMAIN pixels : pixels[i] = pixel_color_at(camera, i, row, seed)

\* The last row of a by-rows render half written: the rows before it are
\* in the file with one line of its own, and its pixels are buffered.
C27_Witness ==
    /\ pc = "rows_write"
    /\ row = Height - 1
    /\ row > 0
    /\ wpos = 1
    /\ Width > 1
    /\ PixelLinesWritten = row * Width + 1
    /\ ~NoPrimaryHit

\* C28: under AllAtOnce the file holds the header and no pixel line while
\* the workers run, whatever their order; the writing starts after the join,
\* when every one of the width*height pixels is computed, and puts out the
\* buffer one line at a time from slot 0 upwards.
C28_JoinBeforeWrite ==
    /\ pc = "all_compute" =>
           (PixelLinesWritten = 0 /\ DOMAIN pixels = 0 .. (Width * Height - 1))
    /\ pc = "all_write" =>
           /\ pending = {}
           /\ DOMAIN pixels = 0 .. (Width * Height - 1)
           /\ \A k \in DOMAIN pixels :
                  pixels[k] = pixel_color_at(camera, k % Width, k \div Width, seed)
           /\ PixelLinesWritten = wpos
           /\ \A k \in 0 .. (wpos - 1) : file[3 + k + 1] = PixelLine(pixels[k])

\* The all-at-once buffer written out in full, of a scene with a sphere in
\* view.
C28_Witness ==
    /\ pc = "all_write"
    /\ wpos = Width * Height
    /\ PixelLinesWritten = Width * Height
    /\ ~NoPrimaryHit
    /\ pixels[0] # pixels[Width * Height - 1]

\* The workers are running: between the fork and the join.
ParallelPhase == pc \in {"all_compute", "rows_compute"}

\* C20: from the start of Camera::render to its end the camera (world,
\* geometry, image and render options) does not change; in the parallel
\* phase a step of a worker fills one slot of the buffer that no worker has
\* filled yet and changes no other slot, the join happens when every slot
\* has been filled, and nothing changes the buffer between the join and
\* the end of the writing: every slot is written by one worker, once.
C20_WorkersDisjoint ==
    [][/\ Rendering => camera' = camera
       /\ (ParallelPhase /\ pc' = pc) =>
              \E k \in pending :
                  /\ pending' = pending \ {k}
                  /\ \A n \in DOMAIN pixels \ {k} : pixels'[n] = pixels[n]
                  /\ DOMAIN pixels' = DOMAIN pixels
       /\ (ParallelPhase /\ pc' # pc) => (pending = {} /\ pixels' = pixels)
       /\ (pc \in {"all_write", "rows_write"} /\ pc' \in {pc, "failed"}) =>
              pixels' = pixels]_vars

\* The all-at-once workers half way: the last slot of the buffer is filled
\* while the first is still to be computed.
C20_Witness ==
    /\ pc = "all_compute"
    /\ 0 \in pending
    /\ (Width * Height - 1) \notin pending
    /\ pixels[Width * Height - 1] # Black
    /\ pixels[0] = Black

\* ------------------------------------------------------------------------
\* HittableList::add and HittableList::hit on their own
\* ------------------------------------------------------------------------

\* Members a list holds at most.
MaxMembers == 3

\* Objects along the -z axis.  Seen from the origin down -z: NearBall
\* spans t in [1, 3], FarBall [3, 5], Wall is met at t = 3, and Shell, around
\* the origin, at t = 2 from inside.
NearBall == Sphere_new(Point_new(0, 0, -2 * One), One, Matte)

FarBall == Sphere_new(Point_new(0, 0, -4 * One), One, Mirror)

Shell == Sphere_new(Point_new(0, 0, 0), 2 * One, Matte)

Wall == Plane_new(Vector_new(0, 0, One), 3 * One, Mirror)

HitObjects == {NearBall, FarBall, Shell, Wall}

HitRays ==
    { Ray_new(Point_new(0, 0, 0), Vector_new(0, 0, -One)),
      Ray_new(Point_new(0, One + One \div 2, 0), Vector_new(0, 0, -One)),
      Ray_new(Point_new(0, 0, 0), Vector_new(Milli(600), 0, Milli(-800))),
      Ray_new(Point_new(0, 0, -One), Vector_new(0, 0, One)) }

HitIntervals ==
    { Interval_new(T_MIN, F64_MAX),
      Interval_new(T_MIN, 3 * One),
      Interval_new(2 * One, 5 * One),
      Interval_new(3 * One, 4 * One),
      Interval_new(Milli(3500), 4 * One) }

\* world.add(object)
WorldAdd(object) ==
    /\ scan.pc \in {"list", "hit"}
    /\ Len(scan.list) < MaxMembers
    /\ scan' = [pc |-> "list", list |-> HittableList_add(scan.list, object),
                added |-> object, result |-> "Ok"]
    /\ UNCHANGED <<image, process, tr, mat, camera, file, pc, hdr, row, col, pixels, pending, wpos, seed, renders>>

\* world.hit(ray_t, ray) is entered: nothing is hit yet.  k is the member
\* the loop comes to next, calls the history of the member tests made.
WorldHit(ray_t, ray) ==
    /\ scan.pc \in {"list", "hit"}
    /\ scan' = [pc |-> "scan", list |-> scan.list, ray_t |-> ray_t, ray |-> ray,
                k |-> 1, acc |-> ScanStart(ray_t), calls |-> <<>>]
    /\ UNCHANGED <<image, process, tr, mat, camera, file, pc, hdr, row, col, pixels, pending, wpos, seed, renders>>

\* One turn of the loop: the test of member k.
HitMember ==
    /\ scan.pc = "scan"
    /\ scan.k <= Len(scan.list)
    /\ scan' = [scan EXCEPT
                    !.k = @ + 1,
                    !.acc = ScanMember(scan.acc, scan.list[scan.k], scan.ray_t, scan.ray),
                    !.calls = Append(@, [hittable |-> scan.list[scan.k],
                                         ray_t |-> ScanInterval(scan.ray_t, scan.acc),
                                         rec |-> Hittable_hit(scan.list[scan.k],
                                                              ScanInterval(scan.ray_t, scan.acc),
                                                              scan.ray)])]
    /\ UNCHANGED <<image, process, tr, mat, camera, file, pc, hdr, row, col, pixels, pending, wpos, seed, renders>>

\* A loop that is left as soon as a record is retained.
HitReturn_at_first_hit ==
    /\ scan.pc = "scan"
    /\ scan.k > Len(scan.list) \/ scan.acc.hit_record.some
    /\ scan' = [pc |-> "hit", list |-> scan.list, ray_t |-> scan.ray_t, ray |-> scan.ray,
                result |-> scan.acc.hit_record, calls |-> scan.calls]
    /\ UNCHANGED <<image, process, tr, mat, camera, file, pc, hdr, row, col, pixels, pending, wpos, seed, renders>>

\* The loop is over: hit returns hit_record.
HitReturn ==
    /\ scan.pc = "scan"
    /\ scan.k > Len(scan.list)
    /\ scan' = [pc |-> "hit", list |-> scan.list, ray_t |-> scan.ray_t, ray |-> scan.ray,
                result |-> scan.acc.hit_record, calls |-> scan.calls]
    /\ UNCHANGED <<image, process, tr, mat, camera, file, pc, hdr, row, col, pixels, pending, wpos, seed, renders>>

RenderIdle ==
    /\ camera = BenchCamera(ImageOptions_new(ImgW, ImgH), HittableList_new)
    /\ image = ImageIdle
    /\ process = ProcessWithCamera
    /\ file = <<>>
    /\ pc = "off"
    /\ hdr = 0
    /\ row = 0
    /\ col = 0
    /\ pixels = NoBuffer
    /\ pending = {}
    /\ wpos = 0
    /\ seed = 0
    /\ renders = <<>>

InitHit ==
    /\ RenderIdle
    /\ scan = [pc |-> "list", list |-> HittableList_new]
    /\ tr = TraceIdle
    /\ mat = MatIdle

NextHit ==
    \/ \E object \in HitObjects : WorldAdd(object)
    \/ \E ray_t \in HitIntervals, ray \in HitRays : WorldHit(ray_t, ray)
    \/ HitMember
    \/ HitReturn

SpecHit == InitHit /\ [][NextHit]_vars

\* The values of t at which the member meets the ray validly within ray_t:
\* for a sphere the roots of its quadratic that lie in the closed interval,
\* for a plane its crossing if the ray is not near-parallel and the crossing
\* lies strictly inside the interval.
ValidTs(hittable, ray_t, ray) ==
    IF hittable.kind = "Sphere"
    THEN LET roots == Sphere_roots(hittable, ray)
         IN  {roots[n] : n \in {m \in DOMAIN roots :
                                   ray_t.min <= roots[m] /\ roots[m] <= ray_t.max}}
    ELSE LET denom == dot(hittable.normal, ray.dir)
         IN  IF Abs(denom) < PLANE_EPS THEN {}
             ELSE LET t == FDiv(-(dot(hittable.normal, ray.origin) + hittable.d), denom)
                  IN  IF ray_t.min < t /\ t < ray_t.max THEN {t} ELSE {}

AllValidTs(list, ray_t, ray) ==
    UNION {ValidTs(list[n], ray_t, ray) : n \in DOMAIN list}

SetMin(S) == CHOOSE x \in S : \A y \in S : x <= y

Reverse(list) == [n \in DOMAIN list |-> list[Len(list) + 1 - n]]

\* C4: HittableList::hit returns None exactly when no member meets the ray
\* validly within the interval supplied; otherwise the record's t lies in
\* that interval and is the smallest valid t over all the members, and the
\* list with its members in the opposite order answers with the same t.
C4_ClosestHit ==
    scan.pc = "hit" =>
        LET ts == AllValidTs(scan.list, scan.ray_t, scan.ray)
            back == HittableList_hit(Reverse(scan.list), scan.ray_t, scan.ray)
        IN  /\ scan.result.some <=> ts # {}
            /\ scan.result.some =>
                   /\ scan.ray_t.min <= scan.result.t
                   /\ scan.result.t <= scan.ray_t.max
                   /\ scan.result.t = SetMin(ts)
            /\ back.some <=> scan.result.some
            /\ back.some => back.t = scan.result.t

\* A list whose first member is met nearer than its second, which in turn
\* is met validly inside the full interval: the answer is the first's t.
C4_Witness ==
    /\ scan.pc = "hit"
    /\ Len(scan.list) >= 2
    /\ scan.result.some
    /\ ValidTs(scan.list[1], scan.ray_t, scan.ray) # {}
    /\ ValidTs(scan.list[2], scan.ray_t, scan.ray) # {}
    /\ scan.result.t = SetMin(ValidTs(scan.list[1], scan.ray_t, scan.ray))
    /\ scan.result.t < SetMin(ValidTs(scan.list[2], scan.ray_t, scan.ray))

\* C16: HittableList::add always returns Ok; each add makes the list one
\* longer, puts the new object last and leaves every earlier member at its
\* position, so that after any sequence of adds the list holds exactly the
\* added objects in call order; a query leaves the list as it is.
C16_AddAppends ==
    [][/\ scan'.pc = "list" =>
              /\ scan'.result = "Ok"
              /\ Len(scan'.list) = Len(scan.list) + 1
              /\ scan'.list[Len(scan'.list)] = scan'.added
              /\ \A n \in 1 .. Len(scan.list) : scan'.list[n] = scan.list[n]
       /\ scan'.pc = "hit" => scan'.list = scan.list]_vars

\* A list after three adds, the third adding the first object again while
\* the second is another one.
C16_Witness ==
    /\ scan.pc = "list"
    /\ Len(scan.list) = MaxMembers
    /\ scan.result = "Ok"
    /\ scan.added = scan.list[1]
    /\ scan.list[Len(scan.list)] = scan.added
    /\ scan.list[2] # scan.added

\* The member tests of the query of the state that returned a record,
\* among the first k.
ScanHits(k) == {n \in 1 .. k : scan.calls[n].rec.some}

SetMax(S) == CHOOSE x \in S : \A y \in S : x >= y

\* The record retained after the first k member tests.
ScanRetained(k) ==
    IF ScanHits(k) = {} THEN None ELSE scan.calls[SetMax(ScanHits(k))].rec

\* closest_so_far after the first k member tests.
ScanClosest(k) ==
    IF ScanHits(k) = {} THEN scan.ray_t.max ELSE ScanRetained(k).t

\* C24: every query tests every member exactly once, in insertion order,
\* whether or not an earlier member was hit, and the record returned is that
\* of the last member that returned one: a later, nearer member replaces
\* the earlier result.
C24_EveryMemberOnce ==
    /\ scan.pc = "scan" =>
           /\ Len(scan.calls) = scan.k - 1
           /\ \A k \in 1 .. Len(scan.calls) : scan.calls[k].hittable = scan.list[k]
           /\ scan.acc.hit_record = ScanRetained(Len(scan.calls))
    /\ scan.pc = "hit" =>
           /\ Len(scan.calls) = Len(scan.list)
           /\ \A k \in 1 .. Len(scan.list) : scan.calls[k].hittable = scan.list[k]
           /\ scan.result = ScanRetained(Len(scan.list))
           /\ scan.result = HittableList_hit(scan.list, scan.ray_t, scan.ray)

\* Three members all hit in turn, each nearer than the one before: the
\* record returned is the third's.
C24_Witness ==
    /\ scan.pc = "hit"
    /\ Len(scan.list) = 3
    /\ Len(scan.calls) = 3
    /\ \A k \in 1 .. 3 : scan.calls[k].rec.some
    /\ scan.calls[3].rec.t < scan.calls[2].rec.t
    /\ scan.calls[2].rec.t < scan.calls[1].rec.t
    /\ scan.result = scan.calls[3].rec

\* C25: in a scan started with min <= max, every interval handed to a
\* member is [min, closest_so_far] with min <= closest_so_far, where
\* closest_so_far is max before the first hit and the t of the record
\* retained after it; closest_so_far never increases and min never changes.
C25_IntervalShrinks ==
    (scan.pc \in {"scan", "hit"} /\ scan.ray_t.min <= scan.ray_t.max) =>
        \A k \in 1 .. Len(scan.calls) :
            /\ scan.calls[k].ray_t.min = scan.ray_t.min
            /\ scan.calls[k].ray_t.max = ScanClosest(k - 1)
            /\ scan.calls[k].ray_t.min <= scan.calls[k].ray_t.max
            /\ ScanClosest(k) <= ScanClosest(k - 1)
            /\ ScanClosest(k) <= scan.ray_t.max

\* A scan whose second member is handed an interval that ends before the
\* one the first was handed, and whose third is handed a shorter one still.
C25_Witness ==
    /\ scan.pc = "hit"
    /\ Len(scan.calls) = 3
    /\ scan.calls[1].ray_t = scan.ray_t
    /\ scan.calls[2].ray_t.max < scan.calls[1].ray_t.max
    /\ scan.calls[3].ray_t.max < scan.calls[2].ray_t.max
    /\ scan.calls[3].ray_t.min = scan.ray_t.min

\* C26: the retained record is replaced only by a record strictly nearer,
\* so of two members met at the same t the one scanned first is returned.
\* (A sphere accepts a root equal to the upper end of its interval, so a
\* sphere scanned later replaces a record of the same t.)
C26_FirstWinsTies ==
    scan.pc = "hit" =>
        \A k \in 2 .. Len(scan.calls) :
            (scan.calls[k].rec.some /\ ScanRetained(k - 1).some) =>
                scan.calls[k].rec.t < ScanRetained(k - 1).t

\* ------------------------------------------------------------------------
\* Sphere::hit and Plane::hit on their own
\* ------------------------------------------------------------------------

\* A sphere of negative radius: the inner surface of a hollow shell.
Bubble == Sphere_new(Point_new(0, 0, -2 * One), -One, Matte)

\* The plane y = -1, its normal pointing up.
Floor == Plane_new(Vector_new(0, One, 0), One, Matte)

ObjObjects == {NearBall, Shell, Bubble, Wall, Floor}

\* The rays of HitRays, a ray that touches NearBall and Bubble at one
\* point, a ray of direction length 2 and rays down to and up from under
\* the floor.
ObjRays ==
    HitRays \cup
    { Ray_new(Point_new(0, One, 0), Vector_new(0, 0, -One)),
      Ray_new(Point_new(0, 0, 0), Vector_new(0, 0, -2 * One)),
      Ray_new(Point_new(0, 0, 0), Vector_new(0, Milli(-800), Milli(-600))),
      Ray_new(Point_new(0, -3 * One, 0), Vector_new(0, One, 0)) }

\* object.hit(ray_t, ray)
ObjectHit(self, ray_t, ray) ==
    /\ scan.pc \in {"none", "object"}
    /\ scan' = [pc |-> "object", self |-> self, ray_t |-> ray_t, ray |-> ray,
                result |-> Hittable_hit(self, ray_t, ray)]
    /\ UNCHANGED <<image, process, tr, mat, camera, file, pc, hdr, row, col, pixels, pending, wpos, seed, renders>>

InitObj ==
    /\ RenderIdle
    /\ scan = [pc |-> "none"]
    /\ tr = TraceIdle
    /\ mat = MatIdle

NextObj ==
    \E self \in ObjObjects, ray_t \in HitIntervals, ray \in ObjRays : ObjectHit(self, ray_t, ray)

SpecObj == InitObj /\ [][NextObj]_vars

ObjDone(kind) == scan.pc = "object" /\ scan.self.kind = kind

\* The quadratic of the sphere test, from the call's inputs.
ObjOc == sub_vectors(scan.self.center, scan.ray.origin)

ObjA == len_squared(scan.ray.dir)

ObjH == dot(ObjOc, scan.ray.dir)

ObjDiscrim == FMul(ObjH, ObjH) - FMul(ObjA, len_squared(ObjOc) - FMul(scan.self.radius, scan.self.radius))

ObjSmaller == FDiv(ObjH - FSqrt(ObjDiscrim), ObjA)

ObjLarger == FDiv(ObjH + FSqrt(ObjDiscrim), ObjA)

ObjInside(t) == scan.ray_t.min <= t /\ t <= scan.ray_t.max

\* C17: Sphere::hit returns None when the discriminant h^2 - a*c is
\* negative; otherwise it returns a hit at the smaller root (h - sqrt)/a if
\* that lies inside the interval supplied, else at the larger root
\* (h + sqrt)/a if that does, else None; the t of a hit lies inside the
\* interval and its point on the ray at t; a ray that touches the sphere
\* (discriminant 0) has one root and is hit there when the root is inside
\* the interval, and a ray passing farther from the centre than the radius
\* is not hit.
C17_SphereRoots ==
    ObjDone("Sphere") =>
        /\ ObjDiscrim < 0 => ~scan.result.some
        /\ ObjDiscrim >= 0 =>
               /\ ObjSmaller <= ObjLarger
               /\ scan.result.some <=> (ObjInside(ObjSmaller) \/ ObjInside(ObjLarger))
               /\ scan.result.some =>
                      /\ scan.result.t = IF ObjInside(ObjSmaller) THEN ObjSmaller ELSE ObjLarger
                      /\ ObjInside(scan.result.t)
                      /\ scan.result.point = Ray_at(scan.ray, scan.result.t)
        /\ ObjDiscrim = 0 =>
               /\ ObjSmaller = ObjLarger
               /\ scan.result.some <=> ObjInside(ObjSmaller)
        /\ FMul(len_squared(ObjOc), ObjA) - FMul(ObjH, ObjH)
               > FMul(FMul(scan.self.radius, scan.self.radius), ObjA)
           => ~scan.result.some

\* A sphere whose smaller root lies before the interval and whose larger
\* root lies inside it: the hit is at the larger root.
C17_Witness ==
    /\ ObjDone("Sphere")
    /\ ObjDiscrim > 0
    /\ ~ObjInside(ObjSmaller)
    /\ ObjInside(ObjLarger)
    /\ scan.result.some
    /\ scan.result.t = ObjLarger

\* The outward normal of the object at the point of the hit.
ObjOutward ==
    IF scan.self.kind = "Sphere"
    THEN div_vector_and_scalar(sub_vectors(scan.result.point, scan.self.center), scan.self.radius)
    ELSE scan.self.normal

\* C18: every record Sphere::hit or Plane::hit returns has front_face equal
\* to (ray direction . outward normal < 0) and a stored normal that is the
\* outward normal when front_face is true and its negation otherwise, so
\* that it opposes the incoming ray (direction . normal <= 0); for a sphere
\* of negative radius the outward normal (hit_point - center) / radius
\* points toward the centre.
C18_FaceNormal ==
    (scan.pc = "object" /\ scan.result.some) =>
        /\ scan.result.front_face <=> dot(scan.ray.dir, ObjOutward) < 0
        /\ scan.result.normal = IF scan.result.front_face THEN ObjOutward
                                ELSE neg_vector(ObjOutward)
        /\ dot(scan.ray.dir, scan.result.normal) <= 0
        /\ (scan.self.kind = "Sphere" /\ scan.self.radius < 0) =>
               dot(ObjOutward, sub_vectors(scan.self.center, scan.result.point)) > 0

\* A sphere of negative radius struck from outside: its outward normal
\* points along the ray, front_face is false and the stored normal is the
\* negated outward normal.
C18_Witness ==
    /\ ObjDone("Sphere")
    /\ scan.self.radius < 0
    /\ scan.result.some
    /\ len_squared(ObjOc) > FMul(scan.self.radius, scan.self.radius)
    /\ ~scan.result.front_face
    /\ scan.result.normal = neg_vector(ObjOutward)
    /\ dot(scan.ray.dir, scan.result.normal) < 0

\* ------------------------------------------------------------------------
\* Ray::color call by call
\* ------------------------------------------------------------------------

\* The largest bounce a caller passes.
MaxDepth == 3

TraceWorlds ==
    { HittableList_new,
      HittableList_add(HittableList_new, BallA),
      HittableList_add(HittableList_add(HittableList_new, BallA), BallB),
      HittableList_add(HittableList_new, Shell) }

TraceCamera == BenchCamera(ImageOptions_new(2, 2), HittableList_new)

\* The four camera rays of a 2 x 2 image, and two of their directions
\* from another origin.
TraceRays ==
    {PrimaryRay(TraceCamera, i, j) : i \in 0 .. 1, j \in 0 .. 1} \cup
    {Ray_new(Point_new(0, 0, One \div 2), PrimaryRay(TraceCamera, i, 1).dir) : i \in 0 .. 1}

\* ray.color(world, bounce), called from outside.
ColorCall(ray, world, bounce, s) ==
    /\ tr.pc = "idle"
    /\ tr' = [pc |-> "call", ray0 |-> ray, world |-> world, depth0 |-> bounce, seed |-> s,
              ray |-> ray, bounce |-> bounce, k |-> 0, stack |-> <<>>,
              record |-> None, queries |-> 0, calls |-> 0, value |-> Black,
              last |-> [set |-> FALSE]]
    /\ UNCHANGED <<image, process, scan, mat, camera, file, pc, hdr, row, col, pixels, pending, wpos, seed, renders>>

\* The innermost call finds bounce == 0 and returns black.
ColorExhausted ==
    /\ tr.pc = "call"
    /\ Exhausted(tr.bounce)
    /\ tr' = [tr EXCEPT !.pc = "return", !.value = Black]
    /\ UNCHANGED <<image, process, scan, mat, camera, file, pc, hdr, row, col, pixels, pending, wpos, seed, renders>>

\* The innermost call, bounce not used up, queries the world.
ColorQuery ==
    /\ tr.pc = "call"
    /\ ~Exhausted(tr.bounce)
    /\ tr.calls <= MaxDepth
    /\ tr' = [tr EXCEPT !.pc = "matched", !.record = WorldQuery(tr.world, tr.ray),
                        !.queries = tr.queries + 1]
    /\ UNCHANGED <<image, process, scan, mat, camera, file, pc, hdr, row, col, pixels, pending, wpos, seed, renders>>

\* Some(record): the call calls color on the scattered ray.
ColorHit ==
    /\ tr.pc = "matched"
    /\ tr.record.some
    /\ LET draw == random_unit(tr.seed, tr.k)
       IN  tr' = [tr EXCEPT !.pc = "call",
                           !.ray = ScatteredRay(tr.record, draw),
                           !.bounce = ChildBounce(tr.bounce),
                           !.k = tr.k + 1,
                           !.stack = Append(tr.stack, [ray |-> tr.ray, record |-> tr.record,
                                                       draw |-> draw]),
                           !.record = None,
                           !.calls = tr.calls + 1]
    /\ UNCHANGED <<image, process, scan, mat, camera, file, pc, hdr, row, col, pixels, pending, wpos, seed, renders>>

\* None: the call returns the sky.
ColorMiss ==
    /\ tr.pc = "matched"
    /\ ~tr.record.some
    /\ tr' = [tr EXCEPT !.pc = "return", !.value = Sky(tr.ray)]
    /\ UNCHANGED <<image, process, scan, mat, camera, file, pc, hdr, row, col, pixels, pending, wpos, seed, renders>>

\* A call that found a record gets its child's colour and returns its own.
ColorReturn ==
    /\ tr.pc = "return"
    /\ tr.stack # <<>>
    /\ LET frame == tr.stack[Len(tr.stack)]
           result == Attenuate(tr.value)
       IN  tr' = [tr EXCEPT !.value = result,
                           !.stack = SubSeq(tr.stack, 1, Len(tr.stack) - 1),
                           !.last = [set |-> TRUE, ray |-> frame.ray, record |-> frame.record,
                                     draw |-> frame.draw, child |-> tr.value,
                                     result |-> result]]
    /\ UNCHANGED <<image, process, scan, mat, camera, file, pc, hdr, row, col, pixels, pending, wpos, seed, renders>>

\* The outermost call returns to its caller.
ColorDone ==
    /\ tr.pc = "return"
    /\ tr.stack = <<>>
    /\ tr' = [tr EXCEPT !.pc = "done"]
    /\ UNCHANGED <<image, process, scan, mat, camera, file, pc, hdr, row, col, pixels, pending, wpos, seed, renders>>

InitTrace ==
    /\ RenderIdle
    /\ scan = ScanIdle
    /\ tr = [pc |-> "idle"]
    /\ mat = MatIdle

NextTrace ==
    \/ \E ray \in TraceRays, world \in TraceWorlds, bounce \in 0 .. MaxDepth, s \in Seeds :
           ColorCall(ray, world, bounce, s)
    \/ ColorExhausted
    \/ ColorQuery
    \/ ColorHit
    \/ ColorMiss
    \/ ColorReturn
    \/ ColorDone

SpecTrace == InitTrace /\ [][NextTrace]_vars


\* ------------------------------------------------------------------------
\* Properties of Ray::color
\* ------------------------------------------------------------------------

TraceDone == tr.pc = "done"

TraceActive == tr.pc \in {"call", "matched", "return", "done"}

\* C5: a call of Ray::color with bounce 0 returns black (0, 0, 0) for any
\* ray and any world, and makes no intersection query on the way.
C5_DepthZeroBlack ==
    (TraceActive /\ tr.depth0 = 0) =>
        /\ tr.queries = 0
        /\ tr.calls = 0
        /\ TraceDone => tr.value = Black

\* A finished call with bounce 0 on a ray that a query would have found to
\* meet an object of the world.
C5_Witness ==
    /\ TraceDone
    /\ tr.depth0 = 0
    /\ WorldQuery(tr.world, tr.ray0).some
    /\ tr.value = Black

\* The bookkeeping of a call: every nested call runs with a bounce exactly
\* one less than its caller's, and neither the queries made nor the nested
\* calls made exceed the bounce the outermost call was given.
TraceBounded ==
    TraceActive =>
        /\ tr.bounce = tr.depth0 - tr.calls
        /\ tr.bounce >= 0
        /\ tr.queries <= tr.depth0
        /\ tr.calls <= tr.depth0
        /\ Len(tr.stack) <= tr.depth0

\* What is left of a call: a number that is 0 when the outermost call has
\* returned.  Going down it weighs the bounce still to spend, coming back up
\* the calls still to return.
TraceRank ==
    CASE tr.pc = "call" -> 3 * tr.bounce + tr.depth0 + 4
      [] tr.pc = "matched" -> 3 * tr.bounce + tr.depth0 + 3
      [] tr.pc = "return" -> Len(tr.stack) + 1
      [] OTHER -> 0

\* C6: Ray::color terminates for every world and every ray: each nested
\* call has a bounce exactly one less than its caller's, a call with bounce
\* d makes at most d queries and at most d nested calls, and every step of
\* a call leaves strictly less of it to do, also in a world whose rays
\* never miss.
C6_Terminates ==
    /\ []TraceBounded
    /\ [][tr.pc # "idle" => (TraceRank' < TraceRank /\ TraceRank' >= 0)]_tr

\* A finished call inside the shell, where no ray misses: it went down to
\* bounce 0 with as many queries and nested calls as its bounce.
C6_Witness ==
    /\ TraceDone
    /\ tr.depth0 = MaxDepth
    /\ tr.calls = tr.depth0
    /\ tr.queries = tr.depth0
    /\ tr.bounce = 0

\* The blend the sky is made of: white and (0.5, 0.70196, 1.0), mixed by a.
SkyBlend(a) ==
    <<FMul(One, One - a) + FMul(Milli(500), a),
      FMul(One, One - a) + FMul(Milli(702), a),
      FMul(One, One - a) + FMul(One, a)>>

\* Every call of the model's input sets that shares the direction of the
\* call under way and, like it, has a positive bounce and misses its world.
MissingCallsAlong(dir) ==
    {c \in [ray : TraceRays, world : TraceWorlds, bounce : 1 .. MaxDepth, seed : Seeds] :
        c.ray.dir = dir /\ ~WorldQuery(c.world, c.ray).some}

\* C8: a call with bounce > 0 whose ray meets nothing in (0.001, +inf)
\* returns the blend of white and sky blue with factor (unit_dir.y + 1) / 2;
\* the colour depends on the direction alone: every world, origin and
\* bounce > 0 for which a ray of that direction misses gives the same.
C8_SkyOnMiss ==
    (TraceDone /\ tr.depth0 > 0 /\ ~WorldQuery(tr.world, tr.ray0).some) =>
        /\ tr.queries = 1
        /\ tr.value = SkyBlend((unit(tr.ray0.dir)[2] + One) \div 2)
        /\ \A c \in MissingCallsAlong(tr.ray0.dir) :
               color(c.ray, c.world, c.bounce, c.seed, 0) = tr.value

\* A finished call that missed a world holding an object, while a ray of the
\* same direction from another origin misses another world.
C8_Witness ==
    /\ TraceDone
    /\ tr.depth0 > 0
    /\ tr.world # HittableList_new
    /\ ~WorldQuery(tr.world, tr.ray0).some
    /\ \E c \in MissingCallsAlong(tr.ray0.dir) :
           c.ray.origin # tr.ray0.origin /\ c.world # tr.world

\* C7 as the specification words it: the call that found a record asks the
\* struck object's material; Absorbed makes its result black, Scattered
\* makes it the component-wise product of the material's attenuation and
\* the child's colour.
C7_MaterialDispatch ==
    (TraceActive /\ tr.last.set) =>
        LET outcome == Material_interact(tr.last.record.material, tr.last.ray,
                                         tr.last.record, tr.last.draw, 0)
        IN  IF outcome.kind = "Absorbed" THEN tr.last.result = Black
            ELSE tr.last.result = Color_mul_Color(outcome.attenuation, tr.last.child)

\* ------------------------------------------------------------------------
\* Material::interact on its own
\* ------------------------------------------------------------------------

MatMaterials ==
    { Matte,
      Lambertian_new(Color_new(Milli(200), Milli(300), Milli(400))),
      Mirror,
      Metal_new(Color_new(Milli(900), Milli(900), Milli(900)), One \div 2),
      Metal_new(Color_new(Milli(700), Milli(600), Milli(500)), 2 * One),
      Dielectric_new(Milli(1500)),
      Dielectric_new(Milli(2400)) }

\* Directions of the incoming ray: along the surface, into it at a steep
\* and at a shallow angle, straight into it, and from behind it.
MatDirs ==
    { Vector_new(One, 0, 0),
      Vector_new(Milli(600), Milli(-800), 0),
      Vector_new(Milli(800), Milli(-600), 0),
      Vector_new(0, -One, 0),
      Vector_new(0, Milli(600), Milli(-800)) }

MatNormals == { Vector_new(0, One, 0), Vector_new(0, 0, One) }

MatRecord(normal, front_face, material) ==
    [point |-> Point_new(0, 0, 0), normal |-> normal, t |-> One, front_face |-> front_face,
     material |-> material]

\* Cosines and indices Dielectric::reflectance is called with.
MatCosines == { 0, One \div 4, One \div 2, One }

MatIors == { Milli(1500), Milli(2400), Milli(667), One, Milli(1) }

\* material.interact(ray, record), the random source returning draw to
\* Vector::random_unit and u to rand::random.
Interact(self, ray, record, draw, u) ==
    /\ mat.pc = "idle"
    /\ mat' = [pc |-> "done", self |-> self, ray |-> ray, record |-> record, draw |-> draw,
               u |-> u, outcome |-> Material_interact(self, ray, record, draw, u)]
    /\ UNCHANGED <<image, process, scan, tr, camera, file, pc, hdr, row, col, pixels, pending, wpos, seed, renders>>

\* Dielectric::reflectance(cosine, ior)
Reflectance(cosine, ior) ==
    /\ mat.pc = "idle"
    /\ mat' = [pc |-> "reflectance", cosine |-> cosine, ior |-> ior,
               value |-> Dielectric_reflectance(cosine, ior)]
    /\ UNCHANGED <<image, process, scan, tr, camera, file, pc, hdr, row, col, pixels, pending, wpos, seed, renders>>

InitMat ==
    /\ RenderIdle
    /\ scan = ScanIdle
    /\ tr = TraceIdle
    /\ mat = [pc |-> "idle"]

NextMat ==
    \/ \E self \in MatMaterials, dir \in MatDirs, normal \in MatNormals,
          front_face \in BOOLEAN, n \in 1 .. NDraw, m \in 1 .. NDraw :
           Interact(self, Ray_new(Point_new(0, One, One), dir),
                    MatRecord(normal, front_face, self), UnitDraws[n], UniformDraws[m])
    \/ \E cosine \in MatCosines, ior \in MatIors : Reflectance(cosine, ior)

SpecMat == InitMat /\ [][NextMat]_vars

MatDone(kind) == mat.pc = "done" /\ mat.self.kind = kind

\* C9: Lambertian interact returns Scattered for every incoming ray, every
\* hit record and every random draw, never Absorbed, and the attenuation it
\* returns is the material's albedo.
C9_LambertianScatters ==
    MatDone("Lambertian") =>
        /\ mat.outcome.kind = "Scattered"
        /\ mat.outcome.attenuation = mat.self.albedo

\* A diffuse surface of a coloured albedo struck from behind.
C9_Witness ==
    /\ MatDone("Lambertian")
    /\ dot(mat.ray.dir, mat.record.normal) > 0
    /\ mat.self.albedo[1] # mat.self.albedo[2]
    /\ mat.outcome.kind = "Scattered"

\* The dot product of the fuzzed reflected direction with the hit normal.
MatFuzzedDot ==
    dot(unit(add_vectors(unit(reflect(mat.ray.dir, mat.record.normal)),
                         mul_vector_and_scalar(mat.draw, mat.self.roughness))),
        mat.record.normal)

\* C10: Metal interact returns Absorbed if and only if the fuzzed reflected
\* direction has a negative dot product with the hit normal; a direction
\* exactly perpendicular to the normal (dot = 0) is Scattered; whenever it
\* scatters the attenuation is the albedo.
C10_MetalAbsorbsBelowZero ==
    MatDone("Metal") =>
        /\ mat.outcome.kind = "Absorbed" <=> MatFuzzedDot < 0
        /\ MatFuzzedDot >= 0 =>
               /\ mat.outcome.kind = "Scattered"
               /\ mat.outcome.attenuation = mat.self.albedo

\* A polished metal struck along its surface: the reflected direction is
\* perpendicular to the normal, and the ray is scattered.
C10_Witness ==
    /\ MatDone("Metal")
    /\ MatFuzzedDot = 0
    /\ mat.outcome.kind = "Scattered"

\* C10 as the specification words it: Absorbed if and only if the dot
\* product is less than or equal to 0, Scattered with the albedo otherwise.
C10_Original ==
    MatDone("Metal") =>
        /\ mat.outcome.kind = "Absorbed" <=> MatFuzzedDot <= 0
        /\ MatFuzzedDot > 0 =>
               /\ mat.outcome.kind = "Scattered"
               /\ mat.outcome.attenuation = mat.self.albedo

\* ------------------------------------------------------------------------
\* The life of a Camera: Camera::new, the update methods, pixel_color_at
\* ------------------------------------------------------------------------

\* No Camera value exists yet.
NoCamera == <<>>

\* The image options callers construct and update cameras with.
CamImages ==
    { ImageOptions_new(2, 2),
      ImageOptions_new(2, 1),
      ImageOptions_antialias(ImageOptions_new(1, 2), 1),
      ImageOptions_antialias(ImageOptions_new(2, 2), 2) }

\* Defocus angles, in degrees: no defocus disk, and the 10 of the benches.
CamDefocus == {0, 10 * One}

\* The camera of the benches with a defocus angle of the caller's choice.
CamCamera(defocus_angle, image_options, world) ==
    Camera_new(90 * One, defocus_angle, Point_new(0, 0, 0), Point_new(0, 0, -One),
               Vector_new(0, One, 0), image_options, world)

CamWorlds == { HittableList_new, HittableList_add(HittableList_new, BallA) }

\* A Camera::new whose logger set-up can be repeated.
CameraNew_repeatable(defocus_angle, image_options, world) ==
    /\ pc \in {"new", "idle"}
    /\ process' = [logger |-> TRUE, calls |-> process.calls + 1,
                   cameras |-> process.cameras + 1]
    /\ camera' = CamCamera(defocus_angle, image_options, world)
    /\ pc' = "idle"
    /\ UNCHANGED <<image, scan, tr, mat, file, hdr, row, col, pixels, pending, wpos, seed,
                   renders>>

\* Camera::new(...): env_logger::init() installs the process-wide logger
\* and panics when one is installed already; past it the function has the
\* single return Ok(camera).
CameraNew(defocus_angle, image_options, world) ==
    /\ pc \in {"new", "idle"}
    /\ IF process.logger
       THEN /\ process' = [process EXCEPT !.calls = @ + 1]
            /\ pc' = "panicked"
            /\ UNCHANGED camera
       ELSE /\ process' = [logger |-> TRUE, calls |-> process.calls + 1,
                           cameras |-> process.cameras + 1]
            /\ camera' = CamCamera(defocus_angle, image_options, world)
            /\ pc' = "idle"
    /\ UNCHANGED <<image, scan, tr, mat, file, hdr, row, col, pixels, pending, wpos, seed,
                   renders>>

\* self.pixel_color_at(i, j), on the random stream s.
PixelColorAt(i, j, s) ==
    /\ pc = "idle"
    /\ i < camera.image_options.width
    /\ j < camera.image_options.height
    /\ pixels' = <<pixel_color_at(camera, i, j, s)>>
    /\ col' = i
    /\ row' = j
    /\ seed' = s
    /\ tr' = [pc |-> "pixel", samples |-> PixelSamples(camera, i, j, s)]
    /\ UNCHANGED <<image, process, scan, mat, camera, file, pc, hdr, pending, wpos, renders>>

InitCam ==
    /\ camera = NoCamera
    /\ file = <<>>
    /\ pc = "new"
    /\ hdr = 0
    /\ row = 0
    /\ col = 0
    /\ pixels = NoBuffer
    /\ pending = {}
    /\ wpos = 0
    /\ seed = 0
    /\ renders = <<>>
    /\ scan = ScanIdle
    /\ tr = TraceIdle
    /\ mat = MatIdle
    /\ image = ImageIdle
    /\ process = ProcessStarted

NextCam ==
    \/ \E defocus_angle \in CamDefocus, image_options \in CamImages, world \in CamWorlds :
           CameraNew(defocus_angle, image_options, world)
    \/ \E image_options \in CamImages : UpdateImageOptions(image_options)
    \/ \E p \in ParallelOptions : UpdateRenderOptions(p)
    \/ \E i \in 0 .. 1, j \in 0 .. 1, s \in Seeds : PixelColorAt(i, j, s)

SpecCam == InitCam /\ [][NextCam]_vars

CameraExists == pc = "idle" /\ camera # NoCamera

\* C22: the first Camera::new call of a process returns Ok with a camera;
\* a later call of the same process returns no camera: it ends in the panic
\* of the second logger set-up, and the process has made one camera only.
C22_NewOnce ==
    [][process'.calls # process.calls =>
          IF process.calls = 0
          THEN /\ pc' = "idle"
               /\ camera' # NoCamera
               /\ process'.cameras = 1
          ELSE /\ pc' = "panicked"
               /\ camera' = camera
               /\ process'.cameras = 1]_vars

\* A second Camera::new call has been made, after the camera of the first
\* one has been used.
C22_Witness ==
    /\ process.calls = 2
    /\ process.cameras = 1
    /\ pc = "panicked"
    /\ pixels # NoBuffer

\* The image and the viewport of the camera have the same aspect ratio:
\* width / height = |viewport.u| / |viewport.v|.
AspectMatches(self) ==
    FMul(len(self.viewport.u), AsF64(self.image_options.height)) =
    FMul(len(self.viewport.v), AsF64(self.image_options.width))

Geometry(self) ==
    [center |-> self.center, focal_vector |-> self.focal_vector, viewport |-> self.viewport,
     defocus_angle |-> self.defocus_angle, world |-> self.world]

MaxSide == 5

\* Largest number of samples per pixel a caller asks for.
MaxSamples == 3

\* ImageOptions::new(width, height)
ImageNew(width, height) ==
    /\ image = ImageIdle
    /\ image' = [pc |-> "new", value |-> ImageOptions_new(width, height)]
    /\ UNCHANGED <<process, camera, file, pc, hdr, row, col, pixels, pending, wpos, seed,
                   renders, scan, tr, mat>>

\* image.antialias(spp), anywhere in a chain of calls.
ImageAntialias(spp) ==
    /\ image.pc \in {"new", "antialias"}
    /\ image' = [pc |-> "antialias", value |-> ImageOptions_antialias(image.value, spp),
                 spp |-> spp]
    /\ UNCHANGED <<process, camera, file, pc, hdr, row, col, pixels, pending, wpos, seed,
                   renders, scan, tr, mat>>

InitImg ==
    /\ RenderIdle
    /\ scan = ScanIdle
    /\ tr = TraceIdle
    /\ mat = MatIdle

NextImg ==
    \/ \E width \in 1 .. MaxSide, height \in 1 .. MaxSide : ImageNew(width, height)
    \/ \E spp \in 0 .. MaxSamples : ImageAntialias(spp)

SpecImg == InitImg /\ [][NextImg]_vars

\* C21: a new ImageOptions has antialiasing Disabled; antialias(0) sets it
\* to Disabled and antialias(n), n > 0, to Enabled(n), whatever it was
\* before, so the last call of a chain decides; no call changes width or
\* height.
C21_AntialiasSetting ==
    [][/\ image'.pc = "new" => image'.value.antialias = Disabled
       /\ image'.pc = "antialias" =>
              /\ image'.spp = 0 => image'.value.antialias = [enabled |-> FALSE, spp |-> 0]
              /\ image'.spp > 0 =>
                     image'.value.antialias = [enabled |-> TRUE, spp |-> image'.spp]
              /\ image'.value.width = image.value.width
              /\ image'.value.height = image.value.height]_vars

\* antialias(0) at the end of a chain on an image that is not square: the
\* setting is Disabled again.
C21_Witness ==
    /\ image.pc = "antialias"
    /\ image.spp = 0
    /\ image.value.antialias = Disabled
    /\ image.value.width = MaxSide
    /\ image.value.height = 1

\* ------------------------------------------------------------------------
\* Reflection of unit vectors
\* ------------------------------------------------------------------------

\* Unit vectors: the axes and vectors in and out of the coordinate planes.
UnitVectors ==
    { Vector_new(One, 0, 0), Vector_new(0, -One, 0), Vector_new(0, 0, One),
      Vector_new(Milli(600), Milli(800), 0), Vector_new(Milli(-800), Milli(600), 0),
      Vector_new(0, Milli(-600), Milli(-800)), Vector_new(Milli(800), 0, Milli(-600)),
      Vector_new(Milli(280), Milli(960), 0), Vector_new(0, Milli(960), Milli(-280)),
      Vector_new(Milli(480), Milli(600), Milli(640)),
      Vector_new(Milli(-640), Milli(480), Milli(-600)) }

\* v.reflect(&normal)
Reflect(v, normal) ==
    /\ mat = MatIdle
    /\ mat' = [pc |-> "reflect", v |-> v, normal |-> normal, count |-> 1,
               out |-> reflect(v, normal)]
    /\ UNCHANGED <<image, process, camera, file, pc, hdr, row, col, pixels, pending, wpos,
                   seed, renders, scan, tr>>

\* out.reflect(&normal): the result reflected again about the same normal.
ReflectAgain ==
    /\ mat.pc = "reflect"
    /\ mat.count = 1
    /\ mat' = [mat EXCEPT !.count = 2, !.out = reflect(mat.out, mat.normal)]
    /\ UNCHANGED <<image, process, camera, file, pc, hdr, row, col, pixels, pending, wpos,
                   seed, renders, scan, tr>>

InitVec ==
    /\ RenderIdle
    /\ scan = ScanIdle
    /\ tr = TraceIdle
    /\ mat = MatIdle

NextVec ==
    \/ \E v \in UnitVectors, normal \in UnitVectors : Reflect(v, normal)
    \/ ReflectAgain

SpecVec == InitVec /\ [][NextVec]_vars

\* The floating tolerance of a comparison of two scalars.
Tolerance == One \div 1000

Near(a, b) ==
    \A k \in 1 .. 3 : a[k] - b[k] <= Tolerance /\ b[k] - a[k] <= Tolerance

\* C23: for unit vectors v and n, reflect(v, n) is v - 2*(v.n)*n, and
\* reflecting the result once more about n gives v back, both within the
\* floating tolerance.
C23_ReflectInvolution ==
    mat.pc = "reflect" =>
        LET v == mat.v
            n == mat.normal
            twice == 2 * (FMul(v[1], n[1]) + FMul(v[2], n[2]) + FMul(v[3], n[3]))
            mirror == <<v[1] - FMul(twice, n[1]), v[2] - FMul(twice, n[2]),
                        v[3] - FMul(twice, n[3])>>
        IN  /\ mat.count = 1 => Near(mat.out, mirror)
            /\ mat.count = 2 => Near(mat.out, v)

\* A vector reflected twice about a normal it is neither along nor
\* perpendicular to, out of the plane of the two.
C23_Witness ==
    /\ mat.pc = "reflect"
    /\ mat.count = 2
    /\ mat.v = Vector_new(Milli(480), Milli(600), Milli(640))
    /\ mat.normal = Vector_new(Milli(-800), Milli(600), 0)
    /\ Near(mat.out, mat.v)

\* ------------------------------------------------------------------------
\* The camera rays of a pixel and the pixel grid
\* ------------------------------------------------------------------------

\* The sum pixel_color_at makes of the colours of the samples n, n + 1, ...
RECURSIVE SamplesColor(_, _, _)
SamplesColor(samples, n, world) ==
    IF n > Len(samples) THEN Black
    ELSE Color_add_Color(
             Color_mul_f64(color(samples[n].ray, world, MAX_BOUNCE, samples[n].seed,
                                 samples[n].k),
                           samples[n].weight),
             SamplesColor(samples, n + 1, world))

\* The point of the viewport at (i + dx + 0.5, j + dy + 0.5) pixels from
\* its upper left corner.
ViewportPoint(self, i, j, dx, dy) ==
    <<self.viewport.upper_left[1]
          + FMul(self.viewport.pixel_delta_u[1], AsF64(i) + dx + One \div 2)
          + FMul(self.viewport.pixel_delta_v[1], AsF64(j) + dy + One \div 2),
      self.viewport.upper_left[2]
          + FMul(self.viewport.pixel_delta_u[2], AsF64(i) + dx + One \div 2)
          + FMul(self.viewport.pixel_delta_v[2], AsF64(j) + dy + One \div 2),
      self.viewport.upper_left[3]
          + FMul(self.viewport.pixel_delta_u[3], AsF64(i) + dx + One \div 2)
          + FMul(self.viewport.pixel_delta_v[3], AsF64(j) + dy + One \div 2)>>

\* A point of the defocus disk of the camera: the centre displaced along the
\* disk vectors by the first two coordinates of a random unit vector.
OnDefocusDisk(self, point) ==
    \E n \in 1 .. Len(UnitDraws) :
        point = <<self.center[1] + FMul(defocus_disk_u(self)[1], UnitDraws[n][1])
                                 + FMul(defocus_disk_v(self)[1], UnitDraws[n][2]),
                  self.center[2] + FMul(defocus_disk_u(self)[2], UnitDraws[n][1])
                                 + FMul(defocus_disk_v(self)[2], UnitDraws[n][2]),
                  self.center[3] + FMul(defocus_disk_u(self)[3], UnitDraws[n][1])
                                 + FMul(defocus_disk_v(self)[3], UnitDraws[n][2])>>

HalfOpenHalf(x) == -(One \div 2) <= x /\ x < One \div 2

\* C29: with antialiasing disabled pixel_color_at traces one ray, from the
\* camera centre through the centre of the pixel, with no offset drawn, and
\* returns its colour; with Enabled(N) it traces N rays, each through the
\* pixel centre displaced by its own offset of [-0.5, 0.5) on both axes,
\* each from the camera centre when defocus_angle <= 0 and from a sampled
\* point of the defocus disk when defocus_angle > 0, and returns the sum of
\* their colours weighted 1/N each.
C29_CameraRays ==
    [][<<tr, pixels, col, row, seed>>' # <<tr, pixels, col, row, seed>> =>
        LET self == camera
            samples == tr'.samples
            antialias == self.image_options.antialias
        IN  /\ pixels' = <<SamplesColor(samples, 1, self.world)>>
            /\ ~antialias.enabled =>
                   /\ Len(samples) = 1
                   /\ samples[1].jitter = <<>>
                   /\ samples[1].weight = One
                   /\ samples[1].ray.origin = self.center
                   /\ samples[1].ray.dir =
                          unit(sub_vectors(ViewportPoint(self, col', row', 0, 0), self.center))
            /\ antialias.enabled =>
                   /\ Len(samples) = antialias.spp
                   /\ \A n \in 1 .. Len(samples) :
                          /\ Len(samples[n].jitter) = 1
                          /\ HalfOpenHalf(samples[n].jitter[1][1])
                          /\ HalfOpenHalf(samples[n].jitter[1][2])
                          /\ samples[n].weight * antialias.spp = One
                          /\ self.defocus_angle <= 0 => samples[n].ray.origin = self.center
                          /\ self.defocus_angle > 0 => OnDefocusDisk(self, samples[n].ray.origin)
                          /\ samples[n].ray.dir =
                                 unit(sub_vectors(ViewportPoint(self, col', row',
                                                                samples[n].jitter[1][1],
                                                                samples[n].jitter[1][2]),
                                                  samples[n].ray.origin))]_vars

\* A pixel of two samples of a camera with a defocus disk: the two rays
\* drew different offsets and start at different points off the centre.
C29_Witness ==
    /\ tr.pc = "pixel"
    /\ pixels = <<pixel_color_at(camera, col, row, seed)>>
    /\ camera.image_options.antialias = [enabled |-> TRUE, spp |-> 2]
    /\ camera.defocus_angle > 0
    /\ camera.world # HittableList_new
    /\ Len(tr.samples) = 2
    /\ tr.samples[1].jitter # tr.samples[2].jitter
    /\ tr.samples[1].ray.origin # camera.center
    /\ tr.samples[1].ray.origin # tr.samples[2].ray.origin

\* C30: whatever calls of Camera::new, update_image_options and
\* update_render_options were made, the pixel deltas times the width and the
\* height of the image the camera holds are the viewport vectors u and v.
\* (update_image_options installs an image of another size and leaves the
\* deltas as Camera::new derived them.)
C30_GridCoversViewport ==
    CameraExists =>
        /\ Near(mul_vector_and_scalar(camera.viewport.pixel_delta_u,
                                      AsF64(camera.image_options.width)),
                camera.viewport.u)
        /\ Near(mul_vector_and_scalar(camera.viewport.pixel_delta_v,
                                      AsF64(camera.image_options.height)),
                camera.viewport.v)

\* The dielectric call of the state: index ratio, angle and the test for
\* total internal reflection, written out from the call's inputs.
MatRatio == IF mat.record.front_face THEN FDiv(One, mat.self.ior) ELSE mat.self.ior

MatCos == FMin(dot(neg_vector(mat.ray.dir), mat.record.normal), One)

MatSin == FSqrt(One - FMul(MatCos, MatCos))

MatTir == FMul(MatRatio, MatSin) > One

\* C11: Dielectric interact returns Scattered for every incoming ray, every
\* hit record and every random draw, never Absorbed; the attenuation is
\* (1, 1, 1) and the scattered ray starts at the hit point; that holds
\* under total internal reflection too.
C11_DielectricScatters ==
    MatDone("Dielectric") =>
        /\ mat.outcome.kind = "Scattered"
        /\ mat.outcome.attenuation = Color_new(One, One, One)
        /\ mat.outcome.inner.origin = mat.record.point

\* Glass struck from inside beyond the critical angle: total internal
\* reflection, and the ray is scattered from the hit point.
C11_Witness ==
    /\ MatDone("Dielectric")
    /\ ~mat.record.front_face
    /\ MatTir
    /\ mat.outcome.kind = "Scattered"
    /\ mat.outcome.inner.origin # mat.ray.origin

\* C12: Dielectric interact uses the ratio 1/ior when front_face is true
\* and ior otherwise; it reflects the incoming direction exactly when
\* ratio * sin_theta > 1 or the Schlick reflectance at cos_theta is
\* strictly greater than the uniform value drawn, and refracts with that
\* ratio in every other case; for a ray that meets the surface against the
\* normal, the reflected ray stays on the normal's side and the refracted
\* ray leaves on the other.
C12_ReflectOrRefract ==
    MatDone("Dielectric") =>
        LET r0 == Powi2(FDiv(One - MatRatio, One + MatRatio))
            schlick == r0 + FMul(One - r0, Powi5(One - MatCos))
            reflects == MatTir \/ schlick > mat.u
            side == dot(mat.outcome.inner.dir, mat.record.normal)
        IN  /\ mat.outcome.inner.dir =
                   IF reflects THEN reflect(mat.ray.dir, mat.record.normal)
                   ELSE refract(mat.ray.dir, mat.record.normal, MatRatio)
            /\ MatCos >= 0 => IF reflects THEN side >= 0 ELSE side <= 0

\* Glass entered from outside at an angle with a draw above the
\* reflectance: the ray is refracted through the surface, bent toward the
\* normal by the ratio 1/ior.
C12_Witness ==
    /\ MatDone("Dielectric")
    /\ mat.record.front_face
    /\ MatCos > 0
    /\ MatCos < One
    /\ ~MatTir
    /\ dot(mat.outcome.inner.dir, mat.record.normal) < 0
    /\ mat.outcome.inner.dir = refract(mat.ray.dir, mat.record.normal, FDiv(One, mat.self.ior))
    /\ mat.outcome.inner.dir # reflect(mat.ray.dir, mat.record.normal)
    /\ mat.outcome.inner.dir # refract(mat.ray.dir, mat.record.normal, mat.self.ior)

ReflectanceDone == mat.pc = "reflectance"

\* r0 of Schlick's approximation.
SchlickR0(ior) == Powi2(FDiv(One - ior, One + ior))

\* C13: for every ior > 0, Dielectric::reflectance(1, ior), at normal
\* incidence, equals r0 = ((1 - ior) / (1 + ior))^2 exactly, while
\* reflectance(0, ior), at grazing incidence, is r0 + (1 - r0), that is 1,
\* which is larger than r0.
C13_ReflectanceEnds ==
    ReflectanceDone =>
        /\ mat.cosine = One => mat.value = SchlickR0(mat.ior)
        /\ mat.cosine = 0 =>
               /\ mat.value = SchlickR0(mat.ior) + (One - SchlickR0(mat.ior))
               /\ mat.value = One
               /\ mat.value > SchlickR0(mat.ior)

\* reflectance(0, 1.5) computed: r0 is 0.04, the value is 1.
C13_Witness ==
    /\ ReflectanceDone
    /\ mat.cosine = 0
    /\ mat.ior = Milli(1500)
    /\ SchlickR0(mat.ior) = Milli(40)
    /\ mat.value = One

\* C13 as the specification words it: reflectance(0, ior) equals r0.
C13_Original ==
    (ReflectanceDone /\ mat.cosine = 0) => mat.value = SchlickR0(mat.ior)

====
